---- MODULE Spec2Model ----
(***************************************************************************)
(* Model of bot.py: the Telegram bot that brokers access to a Marzban VPN  *)
(* panel and a YooKassa payment provider.                                  *)
(*                                                                         *)
(* Every handler is an asyncio task.  A task runs without interruption     *)
(* from one await to the next; every panel call (api_get / api_post /      *)
(* api_put) is an await whose MarzbanClient.request runs in a worker       *)
(* thread.  A task is therefore modelled by its position pc (the await it  *)
(* is suspended at), the position cst of its worker thread inside          *)
(* MarzbanClient.request, and its local variables.  One action is one      *)
(* uninterrupted block of handler code or one step of the worker thread.   *)
(***************************************************************************)
EXTENDS Integers, Sequences, FiniteSets, TLC

(* ----------------------------- bounds ---------------------------------- *)
MaxIds    == 1      \* Telegram IDs 1..MaxIds
MaxTasks  == 2      \* handler tasks that can be in flight together
MaxEvents == 2      \* updates / webhook requests delivered in one run
MaxFaults == 1      \* panel calls that meet a failure (401/403/500/422/network/login)
MaxPays   == 1      \* payment ids 1..MaxPays
MaxNow    == 4      \* the clock runs from tick 1 to tick MaxNow

(* ----------------------------- settings -------------------------------- *)
MONTH_DAYS == 30
YEAR_DAYS  == 365
DaySeconds == 86400    \* seconds in timedelta(days=1)
MONTH_PRICE_RUB == 150
YEAR_PRICE_RUB == (MONTH_PRICE_RUB * 12 * (100 - 15)) \div 100    \* YEAR_DISCOUNT = 0.15

\* the default settings: TEST_MODE=1 (accounts are provisioned automatically),
\* PLANS_UNLIMITED=1, no ADMIN_TG_ID
Configs == [test_mode : {TRUE}, plans_unlimited : {TRUE}, admin : {0}, yookassa : {TRUE}]

\* PAID_PLANS, lines 67-92
PAID_PLANS ==
  [plan \in {"test1d", "month", "year"} |->
     CASE plan = "test1d" -> [amount |-> 10, days |-> 1, selected_plan |-> "test_1d"]
       [] plan = "month"  -> [amount |-> MONTH_PRICE_RUB, days |-> MONTH_DAYS,
                              selected_plan |-> "month_30d"]
       [] plan = "year"   -> [amount |-> YEAR_PRICE_RUB, days |-> YEAR_DAYS,
                              selected_plan |-> "year_365d"]]
TicksPerSec == 2    \* clock ticks in one second (datetime keeps sub-second time)

Ids   == 1..MaxIds
Tasks == 1..MaxTasks
PayIds == 1..MaxPays

(* ----------------------------- values ---------------------------------- *)
None      == <<>>                 \* Python None / a missing key
Some(x)   == <<x>>
NoResp    == -1                    \* the awaited call has not returned yet

canonical_username(id) == <<"tg_", id>>
legacy_username(id)    == <<"user", id>>
Handle(id)             == <<"@", id>>      \* the Telegram handle of user id
Names == UNION {{canonical_username(i), legacy_username(i), Handle(i)} : i \in Ids}

\* the account POST /api/user creates: payload expire None, panel default status
NewAccount == [expire |-> None, status |-> "active"]

\* user_map.json after earlier runs: no entry, or one of the names the resolver
\* caches for the ID (the panel may have purged that account since)
UserMaps == {um \in [Ids -> Names \cup {None}] :
               \A i \in Ids : um[i] \in {None, canonical_username(i), legacy_username(i), Handle(i)}}

VARIABLES
  cfg,        \* the configuration read from .env at start-up
  token,      \* MARZBAN_CLIENT._token is set
  panel,      \* the panel's accounts: name -> None | <<account>>
  userMap,    \* data/user_map.json
  allowed,    \* data/allowed.json (a list)
  pending,    \* data/pending.json (a list)
  tasks,      \* the handler tasks
  hist,       \* the calls that returned, in order of return (observation)
  nev,        \* updates delivered so far
  faults,     \* panel calls that met a failure so far
  now,        \* the clock, in ticks
  trialUsed,  \* data/trial_used.json
  selectedPlan, \* data/plan_selected.json
  payReq,     \* data/payment_requests.json
  disk        \* the files of data/ as text, and the save_json call under way

vars == <<cfg, token, panel, userMap, allowed, pending, tasks, hist, nev, faults,
          now, trialUsed, selectedPlan, payReq, disk>>

\* groups of variables an action leaves alone
accessLists == <<allowed, pending>>
planStores  == <<trialUsed, selectedPlan, payReq>>
localStores == <<userMap, allowed, pending, trialUsed, selectedPlan, payReq>>
world       == <<cfg, now, disk>>

(* ------------------- JSON documents (lines 281-294) -------------------- *)
\* Python values, tagged with their type; a dict is its items in insertion order
PyInt(n)      == <<"int", n>>
PyStr(s)      == <<"str", s>>
PyBool(b)     == <<"bool", b>>
PyNone        == <<"none">>
PyList(elems) == <<"list", elems>>
PyDict(items) == <<"dict", items>>
IsList(v) == v[1] = "list"
IsDict(v) == v[1] = "dict"

Digit(n) ==
  CASE n = 0 -> "0" [] n = 1 -> "1" [] n = 2 -> "2" [] n = 3 -> "3" [] n = 4 -> "4"
    [] n = 5 -> "5" [] n = 6 -> "6" [] n = 7 -> "7" [] n = 8 -> "8" [] n = 9 -> "9"

\* str(n) of a non-negative int
RECURSIVE str(_)
str(n) == IF n < 10 THEN Digit(n) ELSE str(n \div 10) \o Digit(n % 10)

\* d.get(key): the value of the last item with the key, None when there is none
RECURSIVE DictGet(_, _)
DictGet(items, key) ==
  IF items = <<>> THEN PyNone
  ELSE IF items[Len(items)][1] = key THEN items[Len(items)][2]
  ELSE DictGet(SubSeq(items, 1, Len(items) - 1), key)

HasKey(items, key) == \E k \in 1..Len(items) : items[k][1] = key

\* d[key] = value: an existing key keeps its place
DictSet(items, key, value) ==
  IF HasKey(items, key)
    THEN [k \in 1..Len(items) |-> IF items[k][1] = key THEN <<key, value>> ELSE items[k]]
    ELSE Append(items, <<key, value>>)

\* json.dump writes a dict key as a string: str, int, bool and None keys are coerced
JsonKey(key) ==
  CASE key[1] = "str"  -> key[2]
    [] key[1] = "int"  -> str(key[2])
    [] key[1] = "bool" -> IF key[2] THEN "true" ELSE "false"
    [] OTHER           -> "null"

\* json.dump(data, f): the text, as its sequence of tokens (white space left out)
RECURSIVE Dump(_), DumpElems(_, _), DumpItems(_, _)
Dump(v) ==
  CASE v[1] = "int"  -> << <<"num", v[2]>> >>
    [] v[1] = "str"  -> << <<"string", v[2]>> >>
    [] v[1] = "bool" -> << IF v[2] THEN <<"true">> ELSE <<"false">> >>
    [] v[1] = "none" -> << <<"null">> >>
    [] v[1] = "list" -> << <<"[">> >> \o DumpElems(v[2], 1) \o << <<"]">> >>
    [] v[1] = "dict" -> << <<"{">> >> \o DumpItems(v[2], 1) \o << <<"}">> >>
DumpElems(elems, k) ==
  IF k > Len(elems) THEN <<>>
  ELSE (IF k > 1 THEN << <<",">> >> ELSE <<>>) \o Dump(elems[k]) \o DumpElems(elems, k + 1)
DumpItems(items, k) ==
  IF k > Len(items) THEN <<>>
  ELSE (IF k > 1 THEN << <<",">> >> ELSE <<>>)
         \o << <<"string", JsonKey(items[k][1])>>, <<":">> >>
         \o Dump(items[k][2]) \o DumpItems(items, k + 1)

\* json.load(f): the value read from position i of the text, and the position after it
Bad == [ok |-> FALSE, val |-> PyNone, next |-> 0]
RECURSIVE ParseValue(_, _), ParseElems(_, _, _), ParseItems(_, _, _)
ParseValue(text, i) ==
  IF i > Len(text) THEN Bad
  ELSE LET tok == text[i]
       IN CASE tok[1] = "num"    -> [ok |-> TRUE, val |-> PyInt(tok[2]), next |-> i + 1]
            [] tok[1] = "string" -> [ok |-> TRUE, val |-> PyStr(tok[2]), next |-> i + 1]
            [] tok[1] = "true"   -> [ok |-> TRUE, val |-> PyBool(TRUE), next |-> i + 1]
            [] tok[1] = "false"  -> [ok |-> TRUE, val |-> PyBool(FALSE), next |-> i + 1]
            [] tok[1] = "null"   -> [ok |-> TRUE, val |-> PyNone, next |-> i + 1]
            [] tok[1] = "["      ->
                 IF i + 1 <= Len(text) /\ text[i + 1][1] = "]"
                   THEN [ok |-> TRUE, val |-> PyList(<<>>), next |-> i + 2]
                   ELSE ParseElems(text, i + 1, <<>>)
            [] tok[1] = "{"      ->
                 IF i + 1 <= Len(text) /\ text[i + 1][1] = "}"
                   THEN [ok |-> TRUE, val |-> PyDict(<<>>), next |-> i + 2]
                   ELSE ParseItems(text, i + 1, <<>>)
            [] OTHER -> Bad
ParseElems(text, i, acc) ==
  LET r == ParseValue(text, i)
  IN IF ~r.ok \/ r.next > Len(text) THEN Bad
     ELSE IF text[r.next][1] = ","
       THEN ParseElems(text, r.next + 1, Append(acc, r.val))
     ELSE IF text[r.next][1] = "]"
       THEN [ok |-> TRUE, val |-> PyList(Append(acc, r.val)), next |-> r.next + 1]
     ELSE Bad
ParseItems(text, i, acc) ==
  IF i + 1 > Len(text) \/ text[i][1] # "string" \/ text[i + 1][1] # ":" THEN Bad
  ELSE LET r == ParseValue(text, i + 2)
           items == DictSet(acc, PyStr(text[i][2]), r.val)
       IN IF ~r.ok \/ r.next > Len(text) THEN Bad
          ELSE IF text[r.next][1] = ","
            THEN ParseItems(text, r.next + 1, items)
          ELSE IF text[r.next][1] = "}"
            THEN [ok |-> TRUE, val |-> PyDict(items), next |-> r.next + 1]
          ELSE Bad

\* a file: missing, or its text
NoFile == [exists |-> FALSE, text |-> <<>>]
File(text) == [exists |-> TRUE, text |-> text]

\* load_json, lines 281-286, applied to the file: a missing file, a text that is no
\* JSON document or has data after the document gives the default
load_json(file, default) ==
  IF ~file.exists THEN default
  ELSE LET r == ParseValue(file.text, 1)
       IN IF r.ok /\ r.next = Len(file.text) + 1 THEN r.val ELSE default

\* _read_json_list / _read_json_map, lines 297-308
_read_json_list(file) ==
  LET data == load_json(file, PyList(<<>>)) IN IF IsList(data) THEN data ELSE PyList(<<>>)
_read_json_map(file) ==
  LET data == load_json(file, PyDict(<<>>)) IN IF IsDict(data) THEN data ELSE PyDict(<<>>)

(* ------------------- the data directory (lines 91-98, 289-294) --------- *)
Paths == {"allowed.json", "user_map.json", "trial_used.json", "payment_requests.json"}

\* a variant of TmpPath that writes the target file in place
TmpPath_inplace(path) == path

\* save_json, line 291: the temporary file of a target
TmpPath(path) == path \o ".tmp"

AllPaths == Paths \cup {TmpPath(path) : path \in Paths}

\* no save under way; last is the text the visible files got from their last rename
NoSave == [pc |-> "idle", path |-> "", data |-> PyNone]
NoDisk == [files |-> [path \in AllPaths |-> NoFile], save |-> NoSave,
           last |-> [path \in Paths |-> NoFile]]

(* ------------------- the stores as files (lines 281-496) --------------- *)
\* a variant of KeyOf that keeps the Telegram ID an int
KeyOf_int(tg_id) == PyInt(tg_id)

\* str(tg_id): the key of a Telegram ID in a stored map
KeyOf(tg_id) == PyStr(str(tg_id))

\* bool(value)
Truthy(v) ==
  CASE v[1] = "none" -> FALSE
    [] v[1] = "bool" -> v[2]
    [] v[1] = "int"  -> v[2] # 0
    [] v[1] = "str"  -> v[2] # ""
    [] OTHER         -> v[2] # <<>>

\* the record pay_choose (username set) or pay_test (username None) stores
PaymentPayload(payment_id, tg_id, with_username) ==
  PyDict(<< <<PyStr("payment_id"), PyStr(str(payment_id))>>,
            <<PyStr("tg_id"), PyInt(tg_id)>>,
            <<PyStr("username"),
              IF with_username THEN PyStr("tg_" \o str(tg_id)) ELSE PyNone>>,
            <<PyStr("plan"), PyStr("month")>>,
            <<PyStr("amount_rub"), PyInt(150)>>,
            <<PyStr("status"), PyStr("pending")>> >>)

\* a variant of the assignment in mark_trial_used that starts from an empty dict
MarkUsed_fresh(items, tg_id) == << <<KeyOf(tg_id), PyBool(TRUE)>> >>

\* mark_trial_used, line 452: data[str(tg_id)] = True
MarkUsed(items, tg_id) == DictSet(items, KeyOf(tg_id), PyBool(TRUE))

\* the accessors, and the file each one works on
Accessors ==
  [is_allowed           |-> "allowed.json",
   add_allowed          |-> "allowed.json",
   _get_user_mapping    |-> "user_map.json",
   _save_user_mapping   |-> "user_map.json",
   is_trial_used        |-> "trial_used.json",
   mark_trial_used      |-> "trial_used.json",
   get_payment_request  |-> "payment_requests.json",
   save_payment_request |-> "payment_requests.json"]

Returns(value) == [raised |-> FALSE, result |-> value, save |-> <<>>]
Saves(doc)     == [raised |-> FALSE, result |-> PyNone, save |-> <<doc>>]
Raises         == [raised |-> TRUE, result |-> PyNone, save |-> <<>>]

\* one accessor call on the file as it is: whether it raised, what it returned and
\* the document it hands to save_json (tg_id is also the payment id)
Access(op, file, tg_id, flag) ==
  CASE op = "is_allowed" ->              \* lines 347-350, not the administrator
         Returns(PyBool(\E k \in 1..Len(_read_json_list(file)[2]) :
                          _read_json_list(file)[2][k] = PyInt(tg_id)))
    [] op = "add_allowed" ->             \* lines 357-361
         LET list == _read_json_list(file)[2]
         IN IF \E k \in 1..Len(list) : list[k] = PyInt(tg_id)
              THEN Returns(PyNone)
              ELSE Saves(PyList(Append(list, PyInt(tg_id))))
    [] op = "_get_user_mapping" ->       \* lines 440-442
         Returns(DictGet(_read_json_map(file)[2], KeyOf(tg_id)))
    [] op = "_save_user_mapping" ->      \* lines 433-437
         Saves(PyDict(DictSet(_read_json_map(file)[2], KeyOf(tg_id),
                              PyStr("tg_" \o str(tg_id)))))
    [] op = "is_trial_used" ->           \* lines 445-447: data.get on what was loaded
         LET data == load_json(file, PyDict(<<>>))
         IN IF ~IsDict(data) THEN Raises
            ELSE Returns(PyBool(Truthy(DictGet(data[2], KeyOf(tg_id)))))
    [] op = "mark_trial_used" ->         \* lines 450-453: data[key] = True
         LET data == load_json(file, PyDict(<<>>))
         IN IF ~IsDict(data) THEN Raises
            ELSE Saves(PyDict(MarkUsed(data[2], tg_id)))
    [] op = "get_payment_request" ->     \* lines 483-486
         LET data == load_json(file, PyDict(<<>>))
         IN IF ~IsDict(data) THEN Raises
            ELSE LET item == DictGet(data[2], PyStr(str(tg_id)))
                 IN Returns(IF IsDict(item) THEN item ELSE PyNone)
    [] op = "save_payment_request" ->    \* lines 467-470: data[request_id] = payload
         LET data == load_json(file, PyDict(<<>>))
         IN IF ~IsDict(data) THEN Raises
            ELSE Saves(PyDict(DictSet(data[2], PyStr(str(tg_id)),
                                      PaymentPayload(tg_id, tg_id, flag))))

StoreFrame == UNCHANGED <<cfg, now, token, panel, localStores, tasks, faults>>

\* a variant of StoreCall in which a handler can run between the load and the save
\* of another handler's accessor call
StoreCall_suspending(op, tg_id, flag) ==
  /\ nev < MaxEvents
  /\ flag => op = "save_payment_request"
  /\ LET path == Accessors[op]
         r == Access(op, disk.files[path], tg_id, flag)
     IN /\ hist' = Append(hist, [fn |-> "access", op |-> op, path |-> path,
                                 file |-> disk.files[path], tg_id |-> tg_id, flag |-> flag,
                                 raised |-> r.raised, result |-> r.result,
                                 saving |-> r.save # <<>>])
        /\ disk' = IF r.save = <<>> THEN disk
                   ELSE [disk EXCEPT !.save = [pc |-> "open", path |-> path,
                                               data |-> r.save[1]]]
  /\ nev' = nev + 1
  /\ StoreFrame

\* a handler calls an accessor; a write goes on into save_json (flag tells
\* save_payment_request whether the record names a panel account)
StoreCall(op, tg_id, flag) ==
  /\ disk.save.pc = "idle" /\ nev < MaxEvents
  /\ flag => op = "save_payment_request"
  /\ LET path == Accessors[op]
         r == Access(op, disk.files[path], tg_id, flag)
     IN /\ hist' = Append(hist, [fn |-> "access", op |-> op, path |-> path,
                                 file |-> disk.files[path], tg_id |-> tg_id, flag |-> flag,
                                 raised |-> r.raised, result |-> r.result,
                                 saving |-> r.save # <<>>])
        /\ disk' = IF r.save = <<>> THEN disk
                   ELSE [disk EXCEPT !.save = [pc |-> "open", path |-> path,
                                               data |-> r.save[1]]]
  /\ nev' = nev + 1
  /\ StoreFrame

\* save_json, lines 290-292: the temporary file is opened for writing
SaveOpen ==
  /\ disk.save.pc = "open"
  /\ disk' = [disk EXCEPT !.files[TmpPath(disk.save.path)] = File(<<>>),
                          !.save.pc = "write"]
  /\ UNCHANGED <<hist, nev>>
  /\ StoreFrame

\* save_json, line 293: json.dump; the text reaches the file in one or two pieces
SaveWrite ==
  /\ disk.save.pc = "write"
  /\ LET tmp  == TmpPath(disk.save.path)
         full == Dump(disk.save.data)
         have == Len(disk.files[tmp].text)
     IN /\ have < Len(full)
        /\ \E n \in (have + 1)..Len(full) :
             /\ have = 0 \/ n = Len(full)
             /\ disk' = [disk EXCEPT !.files[tmp] = File(SubSeq(full, 1, n))]
  /\ UNCHANGED <<hist, nev>>
  /\ StoreFrame

\* save_json, line 294: os.replace(tmp, path) once the file is written and closed
SaveReplace ==
  /\ disk.save.pc = "write"
  /\ LET path == disk.save.path
         tmp  == TmpPath(path)
         moved == [disk.files EXCEPT ![path] = disk.files[tmp]]
         files == IF tmp = path THEN moved ELSE [moved EXCEPT ![tmp] = NoFile]
     IN /\ disk.files[tmp].text = Dump(disk.save.data)
        /\ disk' = [files |-> files, save |-> NoSave,
                    last |-> [disk.last EXCEPT ![path] = File(Dump(disk.save.data))]]
        /\ hist' = Append(hist, [fn |-> "save", path |-> path, doc |-> disk.save.data,
                                 loaded |-> load_json(files[path], PyStr("default"))])
  /\ UNCHANGED nev
  /\ StoreFrame

\* the process dies during a save and is started again; the files stay as they are
Crash ==
  /\ disk.save.pc # "idle"
  /\ disk' = [disk EXCEPT !.save = NoSave]
  /\ hist' = Append(hist, [fn |-> "crash", path |-> disk.save.path, pc |-> disk.save.pc,
                           tmp |-> disk.files[TmpPath(disk.save.path)],
                           doc |-> disk.save.data])
  /\ UNCHANGED nev
  /\ StoreFrame

\* a Telegram ID that took the trial in an earlier run of the bot
EarlierId == MaxIds + 1

\* what a file of data/ can hold at start-up: nothing, a text that is no JSON
\* document (empty or cut short), a document of the other shape, an empty document,
\* and for trial_used.json the entry of an earlier user;
\* InitStore starts from a data directory with at most one file in it
StartFiles(path) ==
  {NoFile, File(<<>>), File(<< <<"{">>, <<"string", "1">> >>),
   File(Dump(IF path = "allowed.json" THEN PyDict(<<>>) ELSE PyList(<<>>))),
   File(Dump(IF path = "allowed.json" THEN PyList(<<>>) ELSE PyDict(<<>>)))}
  \cup (IF path = "trial_used.json"
          THEN {File(Dump(PyDict(MarkUsed(<<>>, EarlierId))))}
          ELSE {})

(* ----------------------------- tasks ----------------------------------- *)
NoReq == [m |-> "", kind |-> "", name |-> None, body |-> None]

IdleTask ==
  [h |-> "idle", pc |-> "idle", uid |-> 0, hdl |-> None,
   \* the awaited panel call
   cst |-> "none", req |-> NoReq, resp |-> NoResp, rbody |-> None,
   sends |-> 0, logins |-> 0, relogins |-> 0, exc |-> "none",
   a1 |-> NoResp, a2 |-> NoResp, faulty |-> FALSE,
   \* locals of resolve_marzban_username / ensure_user_exists
   mapped |-> None, resolved |-> None, created |-> FALSE, err |-> "",
   idx |-> 0, log |-> <<>>, posts |-> 0, errcode |-> 0, screen |-> "",
   \* locals of the handlers
   trial_used |-> FALSE, plan_id |-> "",
   \* locals of activate_paid_plan and its callers
   pid |-> 0, source |-> "", now_utc |-> 0, current_expire |-> None, days |-> 0,
   \* observation: PUT requests the handler sent, and the request it answers
   puts |-> 0, inp |-> <<>>,
   \* observation: hist length when the call began, and whether the handler ran
   \* with no other handler in flight
   born |-> 0, alone |-> TRUE]

Active(t) == tasks[t].h # "idle" /\ tasks[t].pc # "crashed"
Returned(tk) == tk.cst = "none" /\ tk.resp # NoResp

(* ------------------- helpers: api (lines 379-418, 952-977) ------------- *)
\* asyncio.to_thread(_do): the request is handed to a worker thread
Issue(tk, m, kind, name, body) ==
  [tk EXCEPT !.cst = "begin", !.req = [m |-> m, kind |-> kind, name |-> name, body |-> body],
             !.resp = NoResp, !.rbody = None, !.sends = 0, !.logins = 0, !.relogins = 0,
             !.exc = "none", !.a1 = NoResp, !.a2 = NoResp, !.faulty = FALSE]

api_get_user(tk, username)              == Issue(tk, "GET", "user", username, None)
api_find_user_by_username(tk, username) == Issue(tk, "GET", "search", username, None)
api_post_user(tk, username)             == Issue(tk, "POST", "create", username, None)
api_put_user(tk, username, payload)     == Issue(tk, "PUT", "user", username, payload)

\* a variant of ApiReturn without the except branch: the exception reaches the handler
ApiReturn_nocatch(tk, exc, code, body) ==
  IF exc # "none"
    THEN [tk EXCEPT !.cst = "none", !.pc = "crashed", !.exc = exc]
    ELSE [tk EXCEPT !.cst = "none", !.resp = code, !.rbody = body]

\* _do of api_get / api_post / api_put: (status_code, text), or (0, str(exc)) when
\* MARZBAN_CLIENT.request raised
ApiReturn(tk, exc, code, body) ==
  IF exc # "none"
    THEN [tk EXCEPT !.cst = "none", !.resp = 0, !.rbody = None, !.exc = exc]
    ELSE [tk EXCEPT !.cst = "none", !.resp = code, !.rbody = body]

(* ------------------- the panel (external) ------------------------------ *)
\* what the panel answers to a request when it works: [code, body, panel]
PanelAnswer(req, pan) ==
  CASE req.kind = "user" /\ req.m = "GET" ->
         IF pan[req.name] # None
           THEN [code |-> 200, body |-> pan[req.name], panel |-> pan]
           ELSE [code |-> 404, body |-> None, panel |-> pan]
    [] req.kind = "search" ->
         [code |-> 200,
          body |-> IF pan[req.name] # None THEN <<req.name>> ELSE <<>>,
          panel |-> pan]
    [] req.kind = "create" ->
         IF pan[req.name] = None
           THEN [code |-> 201, body |-> None,
                 panel |-> [pan EXCEPT ![req.name] = Some(NewAccount)]]
           ELSE [code |-> 409, body |-> None, panel |-> pan]
    [] req.kind = "user" /\ req.m = "PUT" ->
         IF pan[req.name] # None
           THEN [code |-> 200, body |-> None,
                 panel |-> [pan EXCEPT ![req.name] =
                              Some([expire |-> req.body.expire,
                                    status |-> IF req.body.status = ""
                                                 THEN pan[req.name][1].status
                                                 ELSE req.body.status])]]
           ELSE [code |-> 404, body |-> None, panel |-> pan]

\* the failures the panel can answer to a request
FaultCodes(req) == {401, 403, 500} \cup (IF req.kind = "create" THEN {422} ELSE {})

(* ------------------- MarzbanClient (lines 109-172) --------------------- *)
\* a variant of request_response that retries every 401
request_response_retry(tk, code, body) ==
  IF code = 401
    THEN [tk EXCEPT !.cst = "relogin"]
    ELSE ApiReturn(tk, "none", code, body)

\* request, lines 163-172: what the worker does with the response to a send;
\* cst = "resend" is the recursive call made with retry_on_401=False
request_response(tk, code, body) ==
  IF code = 401 /\ tk.cst # "resend"
    THEN [tk EXCEPT !.cst = "relogin"]
    ELSE IF code = 401
      THEN ApiReturn(tk, "unauth", 0, None)
      ELSE ApiReturn(tk, "none", code, body)

\* a variant of ClientBegin that logs in on every request, token or not
ClientBegin_eager(t) ==
  /\ tasks[t].cst = "begin"
  /\ tasks' = [tasks EXCEPT ![t].cst = "login"]
  /\ UNCHANGED <<token, panel, localStores, world, hist, nev, faults>>

\* request, lines 148-149: no token yet, the worker enters _login
ClientBegin(t) ==
  /\ tasks[t].cst = "begin"
  /\ ~token
  /\ tasks' = [tasks EXCEPT ![t].cst = "login"]
  /\ UNCHANGED <<token, panel, localStores, world, hist, nev, faults>>

\* the task record after one more call of _login
Logged(tk) ==
  [tk EXCEPT !.logins = @ + 1, !.relogins = IF tk.cst = "relogin" THEN @ + 1 ELSE @]

\* _login, lines 119-145: POST /api/admin/token; a failure raises out of request
ClientLogin(t) ==
  /\ tasks[t].cst \in {"login", "relogin"}
  /\ \E ok \in BOOLEAN :
       /\ ok \/ tasks[t].faulty \/ faults < MaxFaults
       /\ token' = (token \/ ok)
       /\ faults' = IF ok \/ tasks[t].faulty THEN faults ELSE faults + 1
       /\ tasks' = [tasks EXCEPT ![t] =
            IF ok
              THEN [Logged(tasks[t]) EXCEPT
                      !.cst = IF tasks[t].cst = "login" THEN "send" ELSE "resend"]
              ELSE ApiReturn([Logged(tasks[t]) EXCEPT !.faulty = TRUE], "login", 0, None)]
  /\ UNCHANGED <<panel, localStores, world, hist, nev>>

\* the task record after the send was answered with status code
Answered(tk, code) ==
  [tk EXCEPT !.sends = @ + 1,
             !.a1 = IF tk.sends = 0 THEN code ELSE @,
             !.a2 = IF tk.sends = 1 THEN code ELSE @]

\* request, lines 151-161: the send, answered by the panel or failing in the network
ClientSend(t) ==
  /\ \/ tasks[t].cst \in {"send", "resend"}
     \/ tasks[t].cst = "begin" /\ token
  /\ LET tk  == tasks[t]
         ans == PanelAnswer(tk.req, panel)
     IN \E f \in {200, 0} \cup FaultCodes(tk.req) :
          /\ f = 200 \/ tk.faulty \/ faults < MaxFaults
          /\ faults' = IF f = 200 \/ tk.faulty THEN faults ELSE faults + 1
          /\ panel' = IF f = 200 THEN ans.panel ELSE panel
          /\ tasks' = [tasks EXCEPT ![t] =
               CASE f = 200 -> request_response(Answered(tk, ans.code), ans.code, ans.body)
                 [] f = 0   -> ApiReturn(Answered([tk EXCEPT !.faulty = TRUE], 0), "net", 0, None)
                 [] OTHER   -> request_response(Answered([tk EXCEPT !.faulty = TRUE], f), f, None)]
  /\ UNCHANGED <<token, localStores, world, hist, nev>>

(* ------------------- helpers: storage (lines 343-375, 433-442) --------- *)
Range(list) == {list[i] : i \in 1..Len(list)}
\* a variant of is_admin that takes every caller for the administrator
is_admin_open(user_id) == TRUE

is_admin(user_id) == IF cfg.admin = 0 THEN FALSE ELSE user_id = cfg.admin
is_allowed(user_id) == is_admin(user_id) \/ user_id \in Range(allowed)
is_pending(user_id) == user_id \in Range(pending)
\* a variant of add_allowed that appends without looking for the ID
add_allowed_dup(list, user_id) == Append(list, user_id)

add_allowed(list, user_id) == IF user_id \notin Range(list) THEN Append(list, user_id) ELSE list
add_pending(list, user_id) == IF user_id \notin Range(list) THEN Append(list, user_id) ELSE list
\* a variant of remove_pending that leaves the list as it is
remove_pending_kept(list, user_id) == list

\* list.remove: the first occurrence is taken out
remove_pending(list, user_id) ==
  IF user_id \notin Range(list) THEN list
  ELSE LET k == CHOOSE n \in 1..Len(list) :
                  list[n] = user_id /\ \A m \in 1..(n - 1) : list[m] # user_id
       IN SubSeq(list, 1, k - 1) \o SubSeq(list, k + 1, Len(list))
\* a variant of _save_user_mapping that never writes the file
_save_user_mapping_lost(um, tg_id, username) == um
_save_user_mapping(um, tg_id, username) == [um EXCEPT ![tg_id] = username]
_get_user_mapping(um, tg_id) == um[tg_id]
is_trial_used(tg_id) == trialUsed[tg_id]
\* a variant of mark_trial_used that does not store the flag
mark_trial_used_lost(tu, tg_id) == tu
mark_trial_used(tu, tg_id) == [tu EXCEPT ![tg_id] = TRUE]
get_selected_plan(tg_id) == selectedPlan[tg_id]
set_selected_plan(sp, tg_id, plan_id) == [sp EXCEPT ![tg_id] = plan_id]

\* a payment request with no key set: what update_payment_request starts from when
\* the id is not stored (tg_id 0, username None, plan "" stand for a missing key)
EmptyItem == [tg_id |-> 0, username |-> None, plan |-> "", amount_rub |-> 0, status |-> ""]

\* a variant of save_payment_request that stores nothing
save_payment_request_dropped(pr, request_id, payload) == pr

save_payment_request(pr, request_id, payload) == [pr EXCEPT ![request_id] = Some(payload)]
is_yookassa_configured == cfg.yookassa
get_payment_request(payment_id) == payReq[payment_id]
update_payment_request(pr, payment_id, status) ==
  LET item == IF pr[payment_id] = None THEN EmptyItem ELSE pr[payment_id][1]
  IN [pr EXCEPT ![payment_id] = Some([item EXCEPT !.status = status])]

(* ------------------- returning to the handler -------------------------- *)
\* the handler showed its last screen and ended
Finish(tk, screen) == [tk EXCEPT !.pc = "done", !.screen = screen, !.cst = "none", !.resp = NoResp]

\* what is recorded of a handler that ended: the screen (or HTTP answer) it gave
HandlerEntry(tk) ==
  [fn |-> "handler", h |-> tk.h, uid |-> tk.uid, screen |-> tk.screen, alone |-> tk.alone,
   plan_id |-> tk.plan_id, trial_used |-> tk.trial_used, puts |-> tk.puts, pid |-> tk.pid,
   inp |-> tk.inp]

\* a handler that ended frees its task and is recorded with the screen it showed
Settle(t, tk, hs) ==
  IF tk.pc = "done"
    THEN /\ tasks' = [tasks EXCEPT ![t] = IdleTask]
         /\ hist' = Append(hs, HandlerEntry(tk))
    ELSE /\ tasks' = [tasks EXCEPT ![t] = tk]
         /\ hist' = hs

(* ------------------- ensure_user_exists (lines 1519-1568) -------------- *)
\* lines 1520-1521: the canonical lookup is sent
EnsureBegin(tk, hl) ==
  [api_get_user([tk EXCEPT !.born = hl, !.posts = 0, !.log = <<>>],
                canonical_username(tk.uid))
     EXCEPT !.pc = "e_get"]

\* get_subscription_link / get_user_data (lines 1571-1592), PUBLIC_BASE_URL set
get_subscription_link(tk, username) == [api_get_user(tk, username) EXCEPT !.pc = "h_link"]

\* pay_choose, lines 2003-2010: the account is known; the provider is asked for a
\* payment unless YooKassa is not configured
PayChooseAccount(tk) ==
  IF ~is_yookassa_configured
    THEN Finish(tk, "payment_unavailable")
    ELSE [tk EXCEPT !.pc = "pc_create", !.cst = "none", !.resp = NoResp]

\* the caller's code after ensure_user_exists returned, up to its next await
AfterEnsure(tk) ==
  CASE tk.h = "getvpn" ->    \* handle_getvpn, lines 588-601
         IF tk.err = "auth" THEN Finish(tk, "err_auth")
         ELSE IF tk.err = "validation" THEN Finish(tk, "err_validation")
         ELSE IF tk.err = "http" THEN Finish(tk, "err_http")
         ELSE IF tk.resolved = None THEN Finish(tk, "not_found")
         ELSE get_subscription_link(tk, tk.resolved)
    [] tk.h = "adm_ok" ->    \* adm_ok, lines 1894-1907 (not_found falls to the last test)
         IF tk.err = "auth" THEN Finish(tk, "err_auth")
         ELSE IF tk.err = "validation" THEN Finish(tk, "err_validation")
         ELSE IF tk.err = "http" THEN Finish(tk, "err_http")
         ELSE IF tk.resolved = None THEN Finish(tk, "not_found")
         ELSE get_subscription_link(tk, tk.resolved)
    [] tk.h = "plan" ->      \* plan_apply, lines 2150-2167
         IF tk.err = "auth" THEN Finish(tk, "err_auth")
         ELSE IF tk.err = "not_found" THEN Finish(tk, "not_found")
         ELSE IF tk.err = "validation" THEN Finish(tk, "err_validation")
         ELSE IF tk.err = "http" THEN Finish(tk, "err_http")
         ELSE IF tk.resolved = None THEN Finish(tk, "not_found")
         ELSE [api_get_user(tk, tk.resolved) EXCEPT !.pc = "plan_get"]
    [] tk.h = "pay_choose" ->   \* pay_choose, lines 1987-2001
         IF tk.err = "auth" THEN Finish(tk, "err_auth")
         ELSE IF tk.err = "not_found" THEN Finish(tk, "not_found")
         ELSE IF tk.err = "validation" THEN Finish(tk, "err_validation")
         ELSE IF tk.err = "http" THEN Finish(tk, "err_http")
         ELSE IF tk.resolved = None THEN Finish(tk, "not_found")
         ELSE PayChooseAccount(tk)
    [] OTHER -> Finish(tk, "")

\* ensure_user_exists returns (created, username, err); um is user_map.json then
EnsureReturn(t, tk, created, username, err, errcode, um) ==
  LET e == [fn |-> "ensure", uid |-> tk.uid, created |-> created, username |-> username,
            err |-> err, errcode |-> errcode, posts |-> tk.posts, log |-> tk.log,
            exc |-> tk.exc, a1 |-> tk.a1, a2 |-> tk.a2, relogins |-> tk.relogins,
            mapBefore |-> userMap[tk.uid], mapAtRet |-> um[tk.uid],
            born |-> tk.born, alone |-> tk.alone]
      tk2 == AfterEnsure([tk EXCEPT !.created = created, !.resolved = username,
                                    !.err = err, !.errcode = errcode])
  IN /\ userMap' = um
     /\ Settle(t, tk2, Append(hist, e))

\* a variant of ensure_lookup that creates the account whatever TEST_MODE says
ensure_lookup_ignores_mode(code, test_mode) ==
  IF code = 200 THEN "exists"
  ELSE IF code \in {401, 403} THEN "auth"
  ELSE IF code # 404 THEN "http"
  ELSE "create"

\* a variant of ensure_lookup that sends the create request for an existing account
ensure_lookup_always_create(code, test_mode) ==
  IF code \in {401, 403} THEN "auth"
  ELSE IF code \notin {200, 404} THEN "http"
  ELSE IF ~test_mode THEN "not_found"
  ELSE "create"

\* lines 1523-1532: what the answer to the canonical lookup leads to
ensure_lookup(code, test_mode) ==
  IF code = 200 THEN "exists"
  ELSE IF code \in {401, 403} THEN "auth"
  ELSE IF code # 404 THEN "http"
  ELSE IF ~test_mode THEN "not_found"
  ELSE "create"

\* lines 1522-1547: the answer to the canonical lookup
EnsureGet(t) ==
  /\ tasks[t].pc = "e_get" /\ Returned(tasks[t])
  /\ LET code == tasks[t].resp
         username == canonical_username(tasks[t].uid)
         tk == [tasks[t] EXCEPT !.log = Append(@, <<"GET", username, code, tasks[t].faulty>>)]
         what == ensure_lookup(code, cfg.test_mode)
     IN CASE what = "exists" ->
               EnsureReturn(t, tk, FALSE, username, "", 0,
                            _save_user_mapping(userMap, tk.uid, username))
          [] what = "create" ->
               /\ tasks' = [tasks EXCEPT ![t] =
                    [api_post_user([tk EXCEPT !.posts = @ + 1], username) EXCEPT !.pc = "e_post"]]
               /\ UNCHANGED <<userMap, hist>>
          [] OTHER ->
               EnsureReturn(t, tk, FALSE, None, what, IF what = "http" THEN code ELSE 0, userMap)
  /\ UNCHANGED <<token, panel, accessLists, planStores, world, nev, faults>>

\* a variant of ensure_create that reports a conflict as a panel failure
ensure_create_conflict_fails(code) ==
  IF code \in {200, 201} THEN "created"
  ELSE IF code = 422 THEN "validation"
  ELSE "http"

\* a variant of ensure_create that takes every answer but 422 for a created account
ensure_create_lenient(code) ==
  IF code = 422 THEN "validation" ELSE "created"

\* lines 1557-1568: what the answer to the create request leads to
ensure_create(code) ==
  IF code \in {200, 201} THEN "created"
  ELSE IF code = 409 THEN "exists"
  ELSE IF code = 422 THEN "validation"
  ELSE "http"

\* lines 1547-1568: the answer to the create request
EnsurePost(t) ==
  /\ tasks[t].pc = "e_post" /\ Returned(tasks[t])
  /\ LET code == tasks[t].resp
         username == canonical_username(tasks[t].uid)
         tk == [tasks[t] EXCEPT !.log = Append(@, <<"POST", username, code, tasks[t].faulty>>)]
         what == ensure_create(code)
     IN IF what = "created"
          THEN EnsureReturn(t, tk, TRUE, username, "", 0,
                            _save_user_mapping(userMap, tk.uid, username))
        ELSE IF what = "exists"
          THEN EnsureReturn(t, tk, FALSE, username, "", 0,
                            _save_user_mapping(userMap, tk.uid, username))
        ELSE IF what = "validation"
          THEN EnsureReturn(t, tk, FALSE, None, "validation", 0, userMap)
        ELSE EnsureReturn(t, tk, FALSE, None, "http", code, userMap)
  /\ UNCHANGED <<token, panel, accessLists, planStores, world, nev, faults>>

(* ------------------- resolve_marzban_username (lines 1603-1659) -------- *)
\* a variant of SearchCands that searches in the order of the direct lookups
SearchCands_direct_order(tk) ==
  <<canonical_username(tk.uid)>>
    \o (IF tk.hdl # None THEN <<tk.hdl>> ELSE <<>>)
    \o <<legacy_username(tk.uid)>>

\* line 1635: the candidates of the search loop, empty ones skipped (line 1636)
SearchCands(tk) ==
  <<canonical_username(tk.uid), legacy_username(tk.uid)>>
    \o (IF tk.hdl # None THEN <<tk.hdl>> ELSE <<>>)

\* a variant of resolve_next that looks the legacy name up before the handle
resolve_next_legacy_first(tk, step) ==
  CASE step = "mapped" ->
         [api_get_user(tk, canonical_username(tk.uid)) EXCEPT !.pc = "r_canonical"]
    [] step = "canonical" ->
         [api_get_user(tk, legacy_username(tk.uid)) EXCEPT !.pc = "r_legacy"]
    [] step = "legacy" /\ tk.hdl # None /\ tk.idx = 0 ->
         [api_get_user([tk EXCEPT !.idx = 1], tk.hdl) EXCEPT !.pc = "r_handle"]
    [] OTHER ->
         [api_find_user_by_username([tk EXCEPT !.idx = 1], SearchCands(tk)[1])
            EXCEPT !.pc = "r_search"]

\* the lookup sent after the lookup of step answered non-200
resolve_next(tk, step) ==
  CASE step = "mapped" ->                        \* lines 1614-1615
         [api_get_user(tk, canonical_username(tk.uid)) EXCEPT !.pc = "r_canonical"]
    [] step = "canonical" /\ tk.hdl # None ->    \* lines 1621-1622
         [api_get_user(tk, tk.hdl) EXCEPT !.pc = "r_handle"]
    [] step \in {"canonical", "handle"} ->       \* lines 1628-1629
         [api_get_user(tk, legacy_username(tk.uid)) EXCEPT !.pc = "r_legacy"]
    [] OTHER ->                                  \* lines 1635-1638
         [api_find_user_by_username([tk EXCEPT !.idx = 1], SearchCands(tk)[1])
            EXCEPT !.pc = "r_search"]

\* a variant of ResolveBegin that reads the cached mapping and does not look it up
ResolveBegin_nocache(tk, um, hl) ==
  resolve_next([tk EXCEPT !.mapped = _get_user_mapping(um, tk.uid), !.born = hl,
                          !.log = <<>>, !.idx = 0], "mapped")

\* lines 1604-1615: the cached mapping is read and the first lookup is sent
ResolveBegin(tk, um, hl) ==
  LET mapped == _get_user_mapping(um, tk.uid)
      tk1 == [tk EXCEPT !.mapped = mapped, !.born = hl, !.log = <<>>, !.idx = 0]
  IN IF mapped # None
       THEN [api_get_user(tk1, mapped) EXCEPT !.pc = "r_mapped"]
       ELSE resolve_next(tk1, "mapped")

\* the caller's code after resolve_marzban_username returned, up to its next await
AfterResolve(tk, hl) ==
  CASE tk.h = "subscription" ->    \* handle_subscription, lines 906-914
         IF tk.resolved = None
           THEN Finish(tk, "inactive")
           ELSE [api_get_user(tk, tk.resolved) EXCEPT !.pc = "sub_get"]
    [] tk.h = "adm_ok" ->          \* adm_ok, lines 1891-1909
         IF tk.resolved = None
           THEN EnsureBegin(tk, hl)
           ELSE get_subscription_link(tk, tk.resolved)
    [] tk.h = "plan" ->            \* plan_apply, lines 2148-2169
         IF tk.resolved = None
           THEN EnsureBegin(tk, hl)
           ELSE [api_get_user(tk, tk.resolved) EXCEPT !.pc = "plan_get"]
    [] tk.h = "pay_choose" ->      \* pay_choose, lines 1985-2003
         IF tk.resolved = None
           THEN EnsureBegin(tk, hl)
           ELSE PayChooseAccount(tk)
    [] OTHER -> Finish(tk, "")

\* resolve_marzban_username returns ret, found at step; um is user_map.json then
ResolveReturn(t, tk, ret, step, um) ==
  LET e == [fn |-> "resolve", uid |-> tk.uid, hdl |-> tk.hdl, ret |-> ret, step |-> step,
            mapped |-> tk.mapped, log |-> tk.log,
            mapBefore |-> userMap[tk.uid], mapAtRet |-> um[tk.uid],
            born |-> tk.born, alone |-> tk.alone, pan |-> panel]
      tk2 == AfterResolve([tk EXCEPT !.resolved = ret], Len(hist) + 1)
  IN /\ userMap' = um
     /\ Settle(t, tk2, Append(hist, e))

\* a variant of ResolveDirect that returns the cached name whatever the panel answered
ResolveDirect_trusting(t, step, save) ==
  LET code == tasks[t].resp
      name == tasks[t].req.name
      tk == [tasks[t] EXCEPT !.log = Append(@, <<step, name, code, tasks[t].faulty>>)]
  IN IF code = 200 \/ step = "mapped"
       THEN ResolveReturn(t, tk, name, step,
                          IF save THEN _save_user_mapping(userMap, tk.uid, name) ELSE userMap)
       ELSE /\ tasks' = [tasks EXCEPT ![t] = resolve_next(tk, step)]
            /\ UNCHANGED <<userMap, hist>>

\* the answer to one of the direct lookups: first 200 wins, else the next lookup
ResolveDirect(t, step, save) ==
  LET code == tasks[t].resp
      name == tasks[t].req.name
      tk == [tasks[t] EXCEPT !.log = Append(@, <<step, name, code, tasks[t].faulty>>)]
  IN IF code = 200
       THEN ResolveReturn(t, tk, name, step,
                          IF save THEN _save_user_mapping(userMap, tk.uid, name) ELSE userMap)
       ELSE /\ tasks' = [tasks EXCEPT ![t] = resolve_next(tk, step)]
            /\ UNCHANGED <<userMap, hist>>

\* lines 1609-1612: the cached name answered
ResolveMapped(t) ==
  /\ tasks[t].pc = "r_mapped" /\ Returned(tasks[t])
  /\ ResolveDirect(t, "mapped", FALSE)
  /\ UNCHANGED <<token, panel, accessLists, planStores, world, nev, faults>>

\* lines 1615-1619: tg_<id> answered
ResolveCanonical(t) ==
  /\ tasks[t].pc = "r_canonical" /\ Returned(tasks[t])
  /\ ResolveDirect(t, "canonical", TRUE)
  /\ UNCHANGED <<token, panel, accessLists, planStores, world, nev, faults>>

\* lines 1622-1626: the Telegram handle answered
ResolveHandle(t) ==
  /\ tasks[t].pc = "r_handle" /\ Returned(tasks[t])
  /\ ResolveDirect(t, "handle", TRUE)
  /\ UNCHANGED <<token, panel, accessLists, planStores, world, nev, faults>>

\* lines 1629-1633: user<id> answered
ResolveLegacy(t) ==
  /\ tasks[t].pc = "r_legacy" /\ Returned(tasks[t])
  /\ ResolveDirect(t, "legacy", TRUE)
  /\ UNCHANGED <<token, panel, accessLists, planStores, world, nev, faults>>

\* lines 1638-1659: one search answered; first reported username wins
ResolveSearch(t) ==
  /\ tasks[t].pc = "r_search" /\ Returned(tasks[t])
  /\ LET code == tasks[t].resp
         cand == tasks[t].req.name
         users == IF code = 200 THEN tasks[t].rbody ELSE <<>>
         tk == [tasks[t] EXCEPT !.log = Append(@, <<"search", cand, code, tasks[t].faulty>>)]
     IN IF users # <<>>
          THEN ResolveReturn(t, tk, users[1], "search",
                             _save_user_mapping(userMap, tk.uid, users[1]))
        ELSE IF tk.idx < Len(SearchCands(tk))
          THEN /\ tasks' = [tasks EXCEPT ![t] =
                    [api_find_user_by_username([tk EXCEPT !.idx = @ + 1],
                                               SearchCands(tk)[tk.idx + 1])
                       EXCEPT !.pc = "r_search"]]
               /\ UNCHANGED <<userMap, hist>>
        ELSE ResolveReturn(t, tk, None, "none", userMap)
  /\ UNCHANGED <<token, panel, accessLists, planStores, world, nev, faults>>

(* ------------------- numeric / time helpers (lines 1111-1143) ---------- *)
\* an expire the panel sends as a JSON string (a number is Some(seconds))
Text(s) == <<"str", s>>
IsText(expire_raw) == Len(expire_raw) = 2

\* a variant of parse_expire_from_user_json that reads null as the epoch
parse_expire_null_is_epoch(expire_raw) ==
  IF expire_raw = None THEN Some(0)
  ELSE IF IsText(expire_raw) THEN (IF expire_raw[2] = "null" THEN Some(0) ELSE None)
  ELSE Some(expire_raw[1] * TicksPerSec)

\* parse_expire_from_user_json, lines 1115-1129: None and "null" give None, a
\* number of seconds gives the datetime, a text that is no ISO date gives None
\* (the texts modelled are "null" and "never", for which fromisoformat raises)
parse_expire_from_user_json(expire_raw) ==
  IF expire_raw = None THEN None
  ELSE IF IsText(expire_raw) THEN None
  ELSE Some(expire_raw[1] * TicksPerSec)

\* timedelta(days=1), in ticks
DayTicks == DaySeconds * TicksPerSec

\* _expire_to_api / format_expire_for_api: strftime("%Y-%m-%dT%H:%M:%SZ") keeps the
\* whole seconds of the datetime; the value is the second the string names
format_expire_for_api(dt) == dt \div TicksPerSec

\* a variant of compute_expire that always counts from now
compute_expire_from_now(now_utc, current_expire, add_days) ==
  [expire |-> now_utc + add_days * DayTicks, label |-> "now"]

\* compute_expire, lines 1136-1143 (a datetime is never falsy)
compute_expire(now_utc, current_expire, add_days) ==
  IF current_expire # None /\ current_expire[1] > now_utc
    THEN [expire |-> current_expire[1] + add_days * DayTicks, label |-> "extend"]
    ELSE [expire |-> now_utc + add_days * DayTicks, label |-> "now"]

(* ------------------- starting a handler -------------------------------- *)
LowestIdle(t) ==
  /\ tasks[t].h = "idle"
  /\ \A u \in Tasks : u < t => tasks[u].h # "idle"

\* an update is dispatched: the handler runs up to its first await
Launch(t, tk0, hs) ==
  LET tk == [tk0 EXCEPT !.alone = \A u \in Tasks \ {t} : tasks[u].h = "idle"]
      rest == [u \in Tasks |-> IF tasks[u].h # "idle"
                                 THEN [tasks[u] EXCEPT !.alone = FALSE]
                                 ELSE tasks[u]]
  IN /\ nev' = nev + 1
     /\ IF tk.pc = "done"
          THEN /\ tasks' = rest
               /\ hist' = Append(hs, HandlerEntry(tk))
          ELSE /\ tasks' = [rest EXCEPT ![t] = tk]
               /\ hist' = hs

NewTask(h, uid, hdl) == [IdleTask EXCEPT !.h = h, !.uid = uid, !.hdl = hdl]

(* ------------------- handle_getvpn (lines 581-637) --------------------- *)
StartGetvpn(t, uid, hdl) ==
  /\ LowestIdle(t) /\ nev < MaxEvents
  /\ LET tk == NewTask("getvpn", uid, hdl)
     IN IF cfg.test_mode
          THEN /\ allowed' = add_allowed(allowed, uid)
               /\ Launch(t, EnsureBegin(tk, Len(hist)), hist)
               /\ UNCHANGED pending
        ELSE IF is_allowed(uid)
          THEN /\ Launch(t, Finish(tk, "already_allowed"), hist)
               /\ UNCHANGED <<allowed, pending>>
        ELSE IF is_pending(uid)
          THEN /\ Launch(t, Finish(tk, "already_pending"), hist)
               /\ UNCHANGED <<allowed, pending>>
        ELSE /\ pending' = add_pending(pending, uid)
             /\ Launch(t, Finish(tk, "request_sent"), hist)
             /\ UNCHANGED allowed
  /\ UNCHANGED <<token, panel, userMap, planStores, world, faults>>

\* lines 601-618: the answer to get_subscription_link; the access screen is shown
HandlerLink(t) ==
  /\ tasks[t].pc = "h_link" /\ Returned(tasks[t])
  /\ Settle(t, Finish(tasks[t], IF tasks[t].resp = 200 THEN "granted_link" ELSE "granted_nolink"),
            hist)
  /\ UNCHANGED <<token, panel, localStores, world, nev, faults>>

(* ------------------- handle_subscription (lines 897-949) --------------- *)
StartSubscription(t, uid, hdl) ==
  /\ LowestIdle(t) /\ nev < MaxEvents
  /\ Launch(t, ResolveBegin([NewTask("subscription", uid, hdl)
                               EXCEPT !.trial_used = is_trial_used(uid),
                                      !.plan_id = get_selected_plan(uid)],
                            userMap, Len(hist)), hist)
  /\ UNCHANGED <<token, panel, localStores, world, faults>>

\* lines 914-949: the answer to api_get_user(resolved); the subscription screen
SubscriptionGet(t) ==
  /\ tasks[t].pc = "sub_get" /\ Returned(tasks[t])
  /\ LET tk == tasks[t]
         inactive == IF tk.trial_used THEN "inactive_trial_used" ELSE "inactive"
         user_data == tk.rbody[1]
         expire_dt == parse_expire_from_user_json(user_data.expire)
         has_active == user_data.status = "active"
                         /\ (expire_dt = None \/ expire_dt[1] > now)
         seen == [tk EXCEPT !.inp = <<user_data.status, user_data.expire, now>>]
     IN IF tk.resp # 200 THEN Settle(t, Finish(tk, inactive), hist)
        ELSE IF ~has_active THEN Settle(t, Finish(seen, inactive), hist)
        ELSE Settle(t, Finish(seen, IF expire_dt = None THEN "active_unlimited"
                                                        ELSE "active_until"), hist)
  /\ UNCHANGED <<token, panel, localStores, world, nev, faults>>

(* ------------------- adm_ok / adm_no (lines 1878-1950) ----------------- *)
\* the administrator's Telegram ID, when ADMIN_TG_ID is set
AdminId == MaxIds + 1

\* adm_ok, lines 1878-1891: the request is approved and the account is resolved
StartAdmOk(t, from_id, target_id) ==
  /\ LowestIdle(t) /\ nev < MaxEvents
  /\ LET tk == [NewTask("adm_ok", target_id, None) EXCEPT !.inp = <<from_id>>]
     IN IF ~is_admin(from_id)
          THEN /\ Launch(t, Finish(tk, "no_rights"), hist)
               /\ UNCHANGED <<allowed, pending>>
          ELSE /\ pending' = remove_pending(pending, target_id)
               /\ allowed' = add_allowed(allowed, target_id)
               /\ Launch(t, ResolveBegin(tk, userMap, Len(hist)), hist)
  /\ UNCHANGED <<token, panel, userMap, planStores, world, faults>>

\* a variant of adm_no that also takes the target out of allowed.json
StartAdmNo_revokes(t, from_id, target_id) ==
  /\ LowestIdle(t) /\ nev < MaxEvents
  /\ LET tk == [NewTask("adm_no", target_id, None) EXCEPT !.inp = <<from_id>>]
     IN IF ~is_admin(from_id)
          THEN /\ Launch(t, Finish(tk, "no_rights"), hist)
               /\ UNCHANGED <<allowed, pending>>
          ELSE /\ pending' = remove_pending(pending, target_id)
               /\ allowed' = remove_pending(allowed, target_id)
               /\ Launch(t, Finish(tk, "rejected"), hist)
  /\ UNCHANGED <<token, panel, userMap, planStores, world, faults>>

\* adm_no, lines 1932-1950: the request is rejected
StartAdmNo(t, from_id, target_id) ==
  /\ LowestIdle(t) /\ nev < MaxEvents
  /\ LET tk == [NewTask("adm_no", target_id, None) EXCEPT !.inp = <<from_id>>]
     IN IF ~is_admin(from_id)
          THEN /\ Launch(t, Finish(tk, "no_rights"), hist)
               /\ UNCHANGED pending
          ELSE /\ pending' = remove_pending(pending, target_id)
               /\ Launch(t, Finish(tk, "rejected"), hist)
  /\ UNCHANGED <<token, panel, userMap, allowed, planStores, world, faults>>

\* TEST_MODE=0: access is granted by approval; ADMIN_TG_ID is set, or missing (0)
ApprovalConfigs ==
  [test_mode : {FALSE}, plans_unlimited : {TRUE}, admin : {0, AdminId}, yookassa : {TRUE}]

InitApproval ==
  /\ cfg \in ApprovalConfigs
  /\ token = FALSE
  /\ panel \in [Names -> {None, Some(NewAccount)}]
  /\ userMap \in UserMaps
  /\ allowed = <<>> /\ pending = <<>>
  /\ trialUsed = [i \in Ids |-> FALSE]
  /\ selectedPlan = [i \in Ids |-> ""]
  /\ payReq = [p \in PayIds |-> None]
  /\ tasks = [t \in Tasks |-> IdleTask]
  /\ hist = <<>>
  /\ nev = 0 /\ faults = 0 /\ now = 0
  /\ disk = NoDisk

NextApproval ==
  \/ \E t \in Tasks : ClientBegin(t)
  \/ \E t \in Tasks : ClientLogin(t)
  \/ \E t \in Tasks : ClientSend(t)
  \/ \E t \in Tasks : EnsureGet(t)
  \/ \E t \in Tasks : ResolveMapped(t)
  \/ \E t \in Tasks : ResolveCanonical(t)
  \/ \E t \in Tasks : ResolveLegacy(t)
  \/ \E t \in Tasks : ResolveSearch(t)
  \/ \E t \in Tasks : HandlerLink(t)
  \/ \E t \in Tasks, uid \in Ids : StartGetvpn(t, uid, None)
  \/ \E t \in Tasks, from_id \in Ids \cup {AdminId}, target_id \in Ids :
       StartAdmOk(t, from_id, target_id)
  \/ \E t \in Tasks, from_id \in Ids \cup {AdminId}, target_id \in Ids :
       StartAdmNo(t, from_id, target_id)

SpecApproval == InitApproval /\ [][NextApproval]_vars

(* ------------------- plan_apply (lines 2121-2205) ---------------------- *)
PLANS == {"trial_7d", "month_30d", "year_365d", "test_1d"}

\* lines 2123-2148: the gates, then the account is resolved
StartPlan(t, uid, hdl, plan_id) ==
  /\ LowestIdle(t) /\ nev < MaxEvents
  /\ LET tk == [NewTask("plan", uid, hdl) EXCEPT !.plan_id = plan_id,
                                                 !.trial_used = is_trial_used(uid)]
     IN Launch(t,
          IF plan_id \notin PLANS
            THEN Finish(tk, "unknown_plan")
          ELSE IF ~cfg.plans_unlimited /\ plan_id = "trial_7d" /\ is_trial_used(uid)
            THEN Finish(tk, "trial_used")
          ELSE IF cfg.plans_unlimited /\ plan_id \in {"month_30d", "year_365d"}
            THEN Finish(tk, "payment")
          ELSE IF plan_id # "trial_7d" /\ ~cfg.test_mode
            THEN Finish(tk, "pay_soon")
          ELSE ResolveBegin(tk, userMap, Len(hist)),
          hist)
  /\ UNCHANGED <<token, panel, localStores, world, faults>>

\* lines 2169-2185: the account was read; the unlimited payload is PUT
PlanGet(t) ==
  /\ tasks[t].pc = "plan_get" /\ Returned(tasks[t])
  /\ LET tk == tasks[t]
         payload == [expire |-> None, status |-> ""]
     IN IF tk.resp # 200
          THEN Settle(t, Finish(tk, "no_user_data"), hist)
          ELSE Settle(t, [api_put_user([tk EXCEPT !.puts = @ + 1], tk.resolved, payload)
                            EXCEPT !.pc = "plan_put"], hist)
  /\ UNCHANGED <<token, panel, localStores, world, nev, faults>>

\* a variant of PlanPut that stores the trial flag and the plan before it looks at
\* the answer to the PUT
PlanPut_eager(t) ==
  /\ tasks[t].pc = "plan_put" /\ Returned(tasks[t])
  /\ LET tk == tasks[t]
     IN /\ trialUsed' = IF tk.plan_id = "trial_7d"
                           THEN mark_trial_used(trialUsed, tk.uid) ELSE trialUsed
        /\ selectedPlan' = set_selected_plan(selectedPlan, tk.uid, tk.plan_id)
        /\ Settle(t, Finish(tk, IF tk.resp \notin {200, 204} THEN "apply_failed"
                                                              ELSE "plan_selected"), hist)
  /\ UNCHANGED <<token, panel, userMap, accessLists, payReq, world, nev, faults>>

\* lines 2185-2205: the PUT was answered; the trial flag and the plan are stored
PlanPut(t) ==
  /\ tasks[t].pc = "plan_put" /\ Returned(tasks[t])
  /\ LET tk == tasks[t]
     IN IF tk.resp \notin {200, 204}
          THEN /\ Settle(t, Finish(tk, "apply_failed"), hist)
               /\ UNCHANGED <<trialUsed, selectedPlan>>
          ELSE /\ trialUsed' = IF tk.plan_id = "trial_7d"
                                  THEN mark_trial_used(trialUsed, tk.uid) ELSE trialUsed
               /\ selectedPlan' = set_selected_plan(selectedPlan, tk.uid, tk.plan_id)
               /\ Settle(t, Finish(tk, "plan_selected"), hist)
  /\ UNCHANGED <<token, panel, userMap, accessLists, payReq, world, nev, faults>>

(* ------------------- payments (lines 683-745, 862-880, 2089-2118) ------ *)
\* the caller's code after activate_paid_plan returned
AfterActivate(tk) ==
  IF tk.h = "webhook"
    THEN Finish(tk, "200_ok")         \* yookassa_webhook, line 880
    ELSE Finish(tk, "confirmed")      \* pay_check, lines 2101-2110

\* activate_paid_plan up to its first await, lines 683-712: the task, the payment
\* requests and the selected plans it leaves
activate_paid_plan(tk0, payment_id, status, source) ==
  LET tk   == [tk0 EXCEPT !.pid = payment_id, !.source = source]
      item == get_payment_request(payment_id)
      upd  == update_payment_request(payReq, payment_id, status)
  IN IF item = None
       THEN [tk |-> AfterActivate(tk), pr |-> payReq, sp |-> selectedPlan]
     ELSE IF status # "succeeded"
       THEN [tk |-> AfterActivate(tk), pr |-> upd, sp |-> selectedPlan]
     ELSE IF item[1].plan \notin DOMAIN PAID_PLANS
       THEN [tk |-> AfterActivate(tk), pr |-> upd, sp |-> selectedPlan]
     ELSE IF item[1].tg_id = 0
       THEN [tk |-> AfterActivate(tk), pr |-> upd, sp |-> selectedPlan]
     ELSE LET plan == PAID_PLANS[item[1].plan]
              pr2  == update_payment_request(payReq, payment_id, "succeeded")
              sp2  == set_selected_plan(selectedPlan, item[1].tg_id, plan.selected_plan)
              tk1  == [tk EXCEPT !.resolved = item[1].username, !.days = plan.days]
          IN IF item[1].username = None
               THEN [tk |-> AfterActivate(tk1), pr |-> pr2, sp |-> sp2]
               ELSE [tk |-> [api_get_user(tk1, item[1].username) EXCEPT !.pc = "act_get"],
                     pr |-> pr2, sp |-> sp2]

\* activate_paid_plan, lines 714-737: the account was read; the new expire is PUT
ActivateGet(t) ==
  /\ tasks[t].pc = "act_get" /\ Returned(tasks[t])
  /\ LET tk == tasks[t]
     IN IF tk.resp # 200    \* lines 715-717: the failure is logged, nothing else
          THEN Settle(t, AfterActivate(tk),
                      Append(hist, [fn |-> "applied", pid |-> tk.pid, source |-> tk.source,
                                    get |-> tk.resp, put |-> NoResp]))
          ELSE LET now_utc == now
                   current_expire == parse_expire_from_user_json(tk.rbody[1].expire)
                   ce == compute_expire(now_utc, current_expire, tk.days)
                   payload == [expire |-> Some(format_expire_for_api(ce.expire)),
                               status |-> "active"]
                   e == [fn |-> "activate", pid |-> tk.pid, source |-> tk.source,
                         now_utc |-> now_utc, current_expire |-> current_expire,
                         days |-> tk.days, new_expire |-> ce.expire, label |-> ce.label,
                         put_expire |-> payload.expire[1]]
               IN Settle(t, [api_put_user([tk EXCEPT !.puts = @ + 1, !.now_utc = now_utc,
                                                     !.current_expire = current_expire],
                                          tk.resolved, payload)
                               EXCEPT !.pc = "act_put"],
                         Append(hist, e))
  /\ UNCHANGED <<token, panel, localStores, world, nev, faults>>

\* activate_paid_plan, lines 737-745: the PUT was answered (a failure is only logged)
ActivatePut(t) ==
  /\ tasks[t].pc = "act_put" /\ Returned(tasks[t])
  /\ Settle(t, AfterActivate(tasks[t]),
            Append(hist, [fn |-> "applied", pid |-> tasks[t].pid, source |-> tasks[t].source,
                          get |-> 200, put |-> tasks[t].resp]))
  /\ UNCHANGED <<token, panel, localStores, world, nev, faults>>

\* the status values YooKassa reports for a payment
PayStatuses == {"pending", "waiting_for_capture", "succeeded", "canceled"}

\* the bodies a notification can carry: a text that is no JSON, a JSON value that is
\* no object (a list, a string, null), an object whose "object" member is a non-empty
\* value that is no object, and an object whose "object" member is an object or is
\* missing (payment_id 0 and status "" stand for a missing or empty id and status)
WebhookBodies == {"not_json", "not_object", "object_not_object", "object"}

\* a variant of the webhook that activates the plan whatever status is reported
StartWebhook_any_status(t, secret_ok, body, payment_id, status) ==
  /\ LowestIdle(t) /\ nev < MaxEvents
  /\ body # "object" => payment_id = 0 /\ status = ""
  /\ LET tk == [NewTask("webhook", 0, None) EXCEPT
                  !.pid = payment_id, !.inp = <<secret_ok, body, payment_id, status>>]
     IN IF ~secret_ok
          THEN /\ Launch(t, Finish(tk, "401_unauthorized"), hist)
               /\ UNCHANGED <<payReq, selectedPlan>>
        ELSE IF body = "not_json"
          THEN /\ Launch(t, Finish(tk, "400_bad_json"), hist)
               /\ UNCHANGED <<payReq, selectedPlan>>
        ELSE IF body \in {"not_object", "object_not_object"}
          THEN /\ Launch(t, Finish(tk, "500_unhandled"), hist)
               /\ UNCHANGED <<payReq, selectedPlan>>
        ELSE IF payment_id = 0 \/ status = ""
          THEN /\ Launch(t, Finish(tk, "400_bad_payload"), hist)
               /\ UNCHANGED <<payReq, selectedPlan>>
        ELSE LET a == activate_paid_plan(tk, payment_id, "succeeded", "webhook")
             IN /\ payReq' = a.pr
                /\ selectedPlan' = a.sp
                /\ Launch(t, a.tk, hist)
  /\ UNCHANGED <<token, panel, userMap, accessLists, trialUsed, world, faults>>

\* a variant of the webhook that stores the reported status before it checks the
\* secret
StartWebhook_store_first(t, secret_ok, body, payment_id, status) ==
  /\ LowestIdle(t) /\ nev < MaxEvents
  /\ body # "object" => payment_id = 0 /\ status = ""
  /\ LET tk == [NewTask("webhook", 0, None) EXCEPT
                  !.pid = payment_id, !.inp = <<secret_ok, body, payment_id, status>>]
         pr == IF payment_id # 0 /\ status # ""
                 THEN update_payment_request(payReq, payment_id, status) ELSE payReq
     IN /\ payReq' = pr
        /\ Launch(t, Finish(tk, IF ~secret_ok THEN "401_unauthorized"
                                ELSE IF body = "not_json" THEN "400_bad_json"
                                ELSE IF body # "object" THEN "500_unhandled"
                                ELSE IF payment_id = 0 \/ status = "" THEN "400_bad_payload"
                                ELSE "200_ok"), hist)
        /\ UNCHANGED selectedPlan
  /\ UNCHANGED <<token, panel, userMap, accessLists, trialUsed, world, faults>>

\* yookassa_webhook, lines 862-880: one notification, up to the first panel call
StartWebhook(t, secret_ok, body, payment_id, status) ==
  /\ LowestIdle(t) /\ nev < MaxEvents
  /\ body # "object" => payment_id = 0 /\ status = ""
  /\ LET tk == [NewTask("webhook", 0, None) EXCEPT
                  !.pid = payment_id, !.inp = <<secret_ok, body, payment_id, status>>]
     IN IF ~secret_ok
          THEN /\ Launch(t, Finish(tk, "401_unauthorized"), hist)
               /\ UNCHANGED <<payReq, selectedPlan>>
        ELSE IF body = "not_json"
          THEN /\ Launch(t, Finish(tk, "400_bad_json"), hist)
               /\ UNCHANGED <<payReq, selectedPlan>>
        ELSE IF body \in {"not_object", "object_not_object"}
          \* payload.get / obj.get on a value that is no dict raises out of the handler
          THEN /\ Launch(t, Finish(tk, "500_unhandled"), hist)
               /\ UNCHANGED <<payReq, selectedPlan>>
        ELSE IF payment_id = 0 \/ status = ""
          THEN /\ Launch(t, Finish(tk, "400_bad_payload"), hist)
               /\ UNCHANGED <<payReq, selectedPlan>>
        ELSE IF status = "succeeded"
          THEN LET a == activate_paid_plan(tk, payment_id, status, "webhook")
               IN /\ payReq' = a.pr
                  /\ selectedPlan' = a.sp
                  /\ Launch(t, a.tk, hist)
        ELSE /\ payReq' = update_payment_request(payReq, payment_id, status)
             /\ Launch(t, Finish(tk, "200_ok"), hist)
             /\ UNCHANGED selectedPlan
  /\ UNCHANGED <<token, panel, userMap, accessLists, trialUsed, world, faults>>

\* pay_check, lines 2089-2092: the provider is asked for the payment's status
StartPayCheck(t, uid, payment_id) ==
  /\ LowestIdle(t) /\ nev < MaxEvents
  /\ Launch(t, [NewTask("pay_check", uid, None) EXCEPT !.pid = payment_id,
                                                        !.pc = "chk_status"], hist)
  /\ UNCHANGED <<token, panel, localStores, world, faults>>

\* pay_check, lines 2092-2118: get_yookassa_payment returned status ("" for none)
PayCheckStatus(t, status) ==
  /\ tasks[t].pc = "chk_status"
  /\ LET tk == tasks[t]
     IN IF status = "succeeded"
          THEN LET a == activate_paid_plan(tk, tk.pid, status, "check")
               IN /\ payReq' = a.pr
                  /\ selectedPlan' = a.sp
                  /\ Settle(t, a.tk, hist)
          ELSE /\ Settle(t, Finish(tk, CASE status = "" -> "check_failed"
                                          [] status = "pending" -> "waiting"
                                          [] status = "canceled" -> "canceled"
                                          [] OTHER -> "status"), hist)
               /\ UNCHANGED <<payReq, selectedPlan>>
  /\ UNCHANGED <<token, panel, userMap, accessLists, trialUsed, world, nev, faults>>

\* time passes
Tick ==
  /\ now < MaxNow
  /\ now' = now + 1
  /\ UNCHANGED <<cfg, disk, token, panel, localStores, tasks, hist, nev, faults>>

\* the requests pay_choose stores (lines 2018-2030): pending, for the resolved account
PendingRequests ==
  {[tg_id |-> i, username |-> canonical_username(i), plan |-> p,
    amount_rub |-> PAID_PLANS[p].amount, status |-> "pending"] :
     i \in Ids, p \in {"test1d", "month"}}

\* pay_choose has stored a request or not; the payer's account expires at second 1
\* or never
InitPay ==
  /\ cfg \in Configs
  /\ token = FALSE
  /\ panel \in {pan \in [Names -> {None} \cup {Some([expire |-> x, status |-> "active"]) :
                                                  x \in {None, Some(1)}}] :
                  \A n \in Names : pan[n] # None <=> \E i \in Ids : n = canonical_username(i)}
  /\ userMap = [i \in Ids |-> canonical_username(i)]
  /\ allowed = <<>> /\ pending = <<>>
  /\ trialUsed = [i \in Ids |-> FALSE]
  /\ selectedPlan = [i \in Ids |-> ""]
  /\ payReq \in [PayIds -> {None} \cup {Some(r) : r \in PendingRequests}]
  /\ tasks = [t \in Tasks |-> IdleTask]
  /\ hist = <<>>
  /\ nev = 0 /\ faults = 0 /\ now = 1
  /\ disk = NoDisk

NextPay ==
  \/ \E t \in Tasks : ClientBegin(t)
  \/ \E t \in Tasks : ClientLogin(t)
  \/ \E t \in Tasks : ClientSend(t)
  \/ \E t \in Tasks : ActivateGet(t)
  \/ \E t \in Tasks : ActivatePut(t)
  \/ \E t \in Tasks, secret_ok \in BOOLEAN, body \in WebhookBodies :
       \E payment_id \in PayIds \cup {0}, status \in PayStatuses \cup {""} :
         StartWebhook(t, secret_ok, body, payment_id, status)
  \/ \E t \in Tasks, uid \in Ids, payment_id \in PayIds : StartPayCheck(t, uid, payment_id)
  \/ \E t \in Tasks, status \in PayStatuses \cup {""} : PayCheckStatus(t, status)
  \/ Tick

SpecPay == InitPay /\ [][NextPay]_vars

(* ------------------- the paid-plan checkout (lines 1977-2037) --------- *)
\* pay_choose, lines 1979-1985: the plan is looked up and the account resolved
StartPayChoose(t, uid, plan_short) ==
  /\ LowestIdle(t) /\ nev < MaxEvents
  /\ LET tk == [NewTask("pay_choose", uid, None) EXCEPT !.plan_id = plan_short]
     IN IF plan_short \notin DOMAIN PAID_PLANS
          THEN Launch(t, Finish(tk, "unknown_plan"), hist)
          ELSE Launch(t, ResolveBegin(tk, userMap, Len(hist)), hist)
  /\ UNCHANGED <<token, panel, localStores, world, faults>>

\* pay_choose, lines 2010-2037: create_yookassa_payment returned payment_id (0 for
\* None) and a confirmation URL or none; the request is stored, then the checkout
\* screen with the URL is shown
PayChooseCreate(t, payment_id, has_url) ==
  /\ tasks[t].pc = "pc_create"
  /\ LET tk == [tasks[t] EXCEPT !.pid = payment_id]
         amount == PAID_PLANS[tk.plan_id].amount
         payload == [tg_id |-> tk.uid, username |-> tk.resolved, plan |-> tk.plan_id,
                     amount_rub |-> amount, status |-> "pending"]
         pr == save_payment_request(payReq, payment_id, payload)
         e == [fn |-> "checkout", uid |-> tk.uid, pid |-> payment_id, plan |-> tk.plan_id,
               amount |-> amount, stored |-> pr[payment_id]]
     IN IF payment_id = 0 \/ ~has_url
          THEN /\ Settle(t, Finish(tk, "payment_service_down"), hist)
               /\ UNCHANGED payReq
          ELSE /\ payReq' = pr
               /\ Settle(t, Finish(tk, "checkout"), Append(hist, e))
  /\ UNCHANGED <<token, panel, userMap, accessLists, trialUsed, selectedPlan, world, nev,
                 faults>>

\* YooKassa configured or not
CheckoutConfigs == [test_mode : {TRUE}, plans_unlimited : {TRUE}, admin : {0}, yookassa : BOOLEAN]

\* no payment requested yet; the panel holds at most the tg_<id> accounts
InitCheckout ==
  /\ cfg \in CheckoutConfigs
  /\ token = FALSE
  /\ panel \in {pan \in [Names -> {None, Some(NewAccount)}] :
                  \A n \in Names : pan[n] # None => \E i \in Ids : n = canonical_username(i)}
  /\ userMap \in {um \in UserMaps : \A i \in Ids : um[i] \in {None, canonical_username(i)}}
  /\ allowed = <<>> /\ pending = <<>>
  /\ trialUsed = [i \in Ids |-> FALSE]
  /\ selectedPlan = [i \in Ids |-> ""]
  /\ payReq = [p \in PayIds |-> None]
  /\ tasks = [t \in Tasks |-> IdleTask]
  /\ hist = <<>>
  /\ nev = 0 /\ faults = 0 /\ now = 1
  /\ disk = NoDisk

\* checkouts of a user with no handle, and the provider's notifications about them
NextCheckout ==
  \/ \E t \in Tasks : ClientBegin(t)
  \/ \E t \in Tasks : ClientLogin(t)
  \/ \E t \in Tasks : ClientSend(t)
  \/ \E t \in Tasks : EnsureGet(t)
  \/ \E t \in Tasks : EnsurePost(t)
  \/ \E t \in Tasks : ResolveMapped(t)
  \/ \E t \in Tasks : ResolveCanonical(t)
  \/ \E t \in Tasks : ResolveLegacy(t)
  \/ \E t \in Tasks : ResolveSearch(t)
  \/ \E t \in Tasks : ActivateGet(t)
  \/ \E t \in Tasks : ActivatePut(t)
  \/ \E t \in Tasks, uid \in Ids, plan_short \in {"month", "year", "week"} :
       StartPayChoose(t, uid, plan_short)
  \/ \E t \in Tasks, payment_id \in PayIds \cup {0}, has_url \in BOOLEAN :
       PayChooseCreate(t, payment_id, has_url)
  \/ \E t \in Tasks, payment_id \in PayIds, status \in {"succeeded", "canceled"} :
       StartWebhook(t, TRUE, "object", payment_id, status)

SpecCheckout == InitCheckout /\ [][NextCheckout]_vars

(* ------------------- the subscription screen over time ---------------- *)
\* the expire values the panel reports: null, the texts "null" and "never", second 1
ExpireValues == {None, Text("null"), Text("never"), Some(1)}

\* each user has a tg_<id> account or none; the cache is empty or canonical
InitSubscription ==
  /\ cfg \in Configs
  /\ token = FALSE
  /\ panel \in {pan \in [Names -> {None} \cup {Some([expire |-> x, status |-> st]) :
                                                  x \in ExpireValues,
                                                  st \in {"active", "disabled"}}] :
                  \A n \in Names : pan[n] # None => \E i \in Ids : n = canonical_username(i)}
  /\ userMap \in {um \in UserMaps : \A i \in Ids : um[i] \in {None, canonical_username(i)}}
  /\ allowed = <<>> /\ pending = <<>>
  /\ trialUsed \in [Ids -> BOOLEAN]
  /\ selectedPlan = [i \in Ids |-> ""]
  /\ payReq = [p \in PayIds |-> None]
  /\ tasks = [t \in Tasks |-> IdleTask]
  /\ hist = <<>>
  /\ nev = 0 /\ faults = 0 /\ now = 0
  /\ disk = NoDisk

NextSubscription ==
  \/ \E t \in Tasks : ClientBegin(t)
  \/ \E t \in Tasks : ClientLogin(t)
  \/ \E t \in Tasks : ClientSend(t)
  \/ \E t \in Tasks : ResolveMapped(t)
  \/ \E t \in Tasks : ResolveCanonical(t)
  \/ \E t \in Tasks : ResolveLegacy(t)
  \/ \E t \in Tasks : ResolveSearch(t)
  \/ \E t \in Tasks, uid \in Ids : StartSubscription(t, uid, None)
  \/ \E t \in Tasks : SubscriptionGet(t)
  \/ Tick

SpecSubscription == InitSubscription /\ [][NextSubscription]_vars

(* ------------------- repeated resolution ------------------------------- *)
\* a user with no handle has just opened the subscription screen: the handler waits
\* for its first lookup; getvpn and subscription requests follow
InitRepeat ==
  /\ cfg \in Configs
  /\ token = FALSE
  /\ panel \in {pan \in [Names -> {None, Some(NewAccount)}] :
                  \A n \in Names : pan[n] # None =>
                    \E i \in Ids : n \in {canonical_username(i), legacy_username(i)}}
  /\ userMap \in {um \in UserMaps :
                    \A i \in Ids : um[i] \in {None, canonical_username(i), legacy_username(i)}}
  /\ allowed = <<>> /\ pending = <<>>
  /\ trialUsed = [i \in Ids |-> FALSE]
  /\ selectedPlan = [i \in Ids |-> ""]
  /\ payReq = [p \in PayIds |-> None]
  /\ \E uid \in Ids :
       tasks = [t \in Tasks |->
                  IF t = 1 THEN ResolveBegin(NewTask("subscription", uid, None), userMap, 0)
                           ELSE IdleTask]
  /\ hist = <<>>
  /\ nev = 0 /\ faults = 0 /\ now = 0
  /\ disk = NoDisk

NextRepeat ==
  \/ \E t \in Tasks : ClientBegin(t)
  \/ \E t \in Tasks : ClientLogin(t)
  \/ \E t \in Tasks : ClientSend(t)
  \/ \E t \in Tasks : EnsureGet(t)
  \/ \E t \in Tasks : EnsurePost(t)
  \/ \E t \in Tasks : ResolveMapped(t)
  \/ \E t \in Tasks : ResolveCanonical(t)
  \/ \E t \in Tasks : ResolveLegacy(t)
  \/ \E t \in Tasks : ResolveSearch(t)
  \/ \E t \in Tasks : HandlerLink(t)
  \/ \E t \in Tasks : SubscriptionGet(t)
  \/ \E t \in Tasks, uid \in Ids : StartGetvpn(t, uid, None)
  \/ \E t \in Tasks, uid \in Ids : StartSubscription(t, uid, None)

SpecRepeat == InitRepeat /\ [][NextRepeat]_vars

(* ------------------- account resolution and provisioning --------------- *)
OtherStoresEmpty ==
  /\ allowed = <<>>
  /\ pending = <<>>
  /\ trialUsed = [i \in Ids |-> FALSE]
  /\ selectedPlan = [i \in Ids |-> ""]
  /\ payReq = [p \in PayIds |-> None]

Init ==
  /\ cfg \in Configs
  /\ token = FALSE
  /\ panel \in [Names -> {None, Some(NewAccount)}]
  /\ userMap \in UserMaps
  /\ OtherStoresEmpty
  /\ tasks = [t \in Tasks |-> IdleTask]
  /\ hist = <<>>
  /\ nev = 0 /\ faults = 0 /\ now = 0
  /\ disk = NoDisk

Next ==
  \/ \E t \in Tasks : ClientBegin(t)
  \/ \E t \in Tasks : ClientLogin(t)
  \/ \E t \in Tasks : ClientSend(t)
  \/ \E t \in Tasks : EnsureGet(t)
  \/ \E t \in Tasks : EnsurePost(t)
  \/ \E t \in Tasks : ResolveMapped(t)
  \/ \E t \in Tasks : ResolveCanonical(t)
  \/ \E t \in Tasks : ResolveHandle(t)
  \/ \E t \in Tasks : ResolveLegacy(t)
  \/ \E t \in Tasks : ResolveSearch(t)
  \/ \E t \in Tasks : HandlerLink(t)
  \/ \E t \in Tasks : SubscriptionGet(t)
  \/ \E t \in Tasks, uid \in Ids : \E hdl \in {None, Handle(uid)} : StartGetvpn(t, uid, hdl)
  \/ \E t \in Tasks, uid \in Ids : \E hdl \in {None, Handle(uid)} : StartSubscription(t, uid, hdl)

Spec == Init /\ [][Next]_vars

(* ------------------- the trial plan ------------------------------------ *)
\* TEST_MODE=1 (the default) with either setting of PLANS_UNLIMITED
TrialConfigs == [test_mode : {TRUE}, plans_unlimited : BOOLEAN, admin : {0}, yookassa : {TRUE}]

\* a panel that holds at most the tg_<id> accounts, the cache empty or canonical
InitTrial ==
  /\ cfg \in TrialConfigs
  /\ token = FALSE
  /\ panel \in {pan \in [Names -> {None, Some(NewAccount)}] :
                  \A n \in Names : pan[n] # None => \E i \in Ids : n = canonical_username(i)}
  /\ userMap \in {um \in UserMaps : \A i \in Ids : um[i] \in {None, canonical_username(i)}}
  /\ OtherStoresEmpty
  /\ tasks = [t \in Tasks |-> IdleTask]
  /\ hist = <<>>
  /\ nev = 0 /\ faults = 0 /\ now = 0
  /\ disk = NoDisk

NextTrial ==
  \/ \E t \in Tasks : ClientBegin(t)
  \/ \E t \in Tasks : ClientLogin(t)
  \/ \E t \in Tasks : ClientSend(t)
  \/ \E t \in Tasks : EnsureGet(t)
  \/ \E t \in Tasks : EnsurePost(t)
  \/ \E t \in Tasks : ResolveMapped(t)
  \/ \E t \in Tasks : ResolveCanonical(t)
  \/ \E t \in Tasks : ResolveLegacy(t)
  \/ \E t \in Tasks : ResolveSearch(t)
  \/ \E t \in Tasks : PlanGet(t)
  \/ \E t \in Tasks : PlanPut(t)
  \/ \E t \in Tasks, uid \in Ids :
       \E plan_id \in {"trial_7d", "month_30d", "gift"} :   \* a user with no handle
         StartPlan(t, uid, None, plan_id)

SpecTrial == InitTrial /\ [][NextTrial]_vars

(* ------------------- the stores as files: specification --------------- *)
InitStore ==
  /\ cfg \in Configs
  /\ token = FALSE
  /\ panel = [n \in Names |-> None]
  /\ userMap = [i \in Ids |-> None]
  /\ OtherStoresEmpty
  /\ tasks = [t \in Tasks |-> IdleTask]
  /\ hist = <<>>
  /\ nev = 0 /\ faults = 0 /\ now = 0
  /\ \E files \in [Paths -> UNION {StartFiles(path) : path \in Paths}] :
       /\ \A path \in Paths : files[path] \in StartFiles(path)
       /\ Cardinality({path \in Paths : files[path] # NoFile}) <= 1
       /\ disk = [files |-> [path \in AllPaths |->
                               IF path \in Paths THEN files[path] ELSE NoFile],
                  save |-> NoSave, last |-> files]

NextStore ==
  \/ \E op \in DOMAIN Accessors, tg_id \in Ids, flag \in BOOLEAN : StoreCall(op, tg_id, flag)
  \/ SaveOpen
  \/ SaveWrite
  \/ SaveReplace
  \/ Crash

SpecStore == InitStore /\ [][NextStore]_vars

\* a new data directory, and the accessor calls of two users
InitStorePair ==
  /\ cfg \in Configs
  /\ token = FALSE
  /\ panel = [n \in Names |-> None]
  /\ userMap = [i \in Ids |-> None]
  /\ OtherStoresEmpty
  /\ tasks = [t \in Tasks |-> IdleTask]
  /\ hist = <<>>
  /\ nev = 0 /\ faults = 0 /\ now = 0
  /\ disk = NoDisk

NextStorePair ==
  \/ \E op \in DOMAIN Accessors, tg_id \in Ids \cup {EarlierId}, flag \in BOOLEAN :
       StoreCall(op, tg_id, flag)
  \/ SaveOpen
  \/ SaveWrite
  \/ SaveReplace
  \/ Crash

SpecStorePair == InitStorePair /\ [][NextStorePair]_vars

(* ======================= properties ===================================== *)
EnsureIdx  == {i \in 1..Len(hist) : hist[i].fn = "ensure"}
ResolveIdx == {i \in 1..Len(hist) : hist[i].fn = "resolve"}
\* no panel call of the recorded call met a failure
Clean(e) == \A k \in 1..Len(e.log) : ~e.log[k][4]
\* the awaited panel call of the task has returned and was not yet consumed
Completed(tk) == tk.cst = "none" /\ tk.req.m # "" /\ (tk.resp # NoResp \/ tk.pc = "crashed")

\* two ensure_user_exists calls for one ID, the second begun after the first returned,
\* no ensure call for that ID between them, no handler running beside them, panel healthy
ConsecutiveEnsure(i, j) ==
  /\ i < j
  /\ hist[i].uid = hist[j].uid
  /\ hist[j].born >= i
  /\ \A k \in EnsureIdx : i < k /\ k < j => hist[k].uid # hist[i].uid
  /\ hist[i].alone /\ hist[j].alone
  /\ Clean(hist[i]) /\ Clean(hist[j])

FreshPair(i, j) ==
  /\ ConsecutiveEnsure(i, j)
  /\ cfg.test_mode
  /\ hist[i].log[1][3] = 404

\* C5: with auto-creation on, a healthy panel and no tg_<id> account, two consecutive
\* ensure_user_exists calls return (true, tg_<id>, no error) then (false, tg_<id>, no
\* error), send one create request in total and leave the tg_<id> account on the panel
C5_EnsureIdempotent ==
  \A i, j \in EnsureIdx :
    FreshPair(i, j) =>
      LET name == canonical_username(hist[i].uid)
      IN /\ hist[i].created /\ hist[i].username = name /\ hist[i].err = ""
         /\ ~hist[j].created /\ hist[j].username = name /\ hist[j].err = ""
         /\ hist[i].posts + hist[j].posts = 1
         /\ panel[name] # None

C5_Witness == \E i, j \in EnsureIdx : FreshPair(i, j) /\ hist[i].created /\ ~hist[j].created

\* the direct lookups of a resolve call, in the order the claim gives
DirectCands(e) ==
  (IF e.mapped # None THEN <<e.mapped>> ELSE <<>>)
    \o <<canonical_username(e.uid)>>
    \o (IF e.hdl # None THEN <<e.hdl>> ELSE <<>>)
    \o <<legacy_username(e.uid)>>
NDirect(e) == Cardinality({k \in 1..Len(e.log) : e.log[k][1] # "search"})
DirectSteps == {"mapped", "canonical", "handle", "legacy"}

\* C6: resolve_marzban_username looks the candidates up in the order cached mapping,
\* tg_<id>, handle, user<id>; a candidate is looked up only after every earlier one
\* answered non-200, the first 200 is returned and is the last panel call of the call
C6_ResolveOrder ==
  \A i \in ResolveIdx :
    LET e == hist[i]
        d == NDirect(e)
        c == DirectCands(e)
    IN /\ d <= Len(c)
       /\ \A k \in 1..Len(e.log) : (k <= d) = (e.log[k][1] # "search")
       /\ \A k \in 1..d : e.log[k][2] = c[k] /\ (k < d => e.log[k][3] # 200)
       /\ e.step \in DirectSteps =>
            /\ d = Len(e.log) /\ d >= 1
            /\ e.log[d][3] = 200
            /\ e.ret = c[d]
       /\ e.step \notin DirectSteps => d = Len(c) /\ e.log[d][3] # 200

C6_Witness ==
  \E i \in ResolveIdx :
    /\ hist[i].step = "legacy" /\ Len(hist[i].log) = 4
    /\ hist[i].ret = legacy_username(hist[i].uid)

\* C7 as stated: whenever resolve_marzban_username returns u, UserMap[id] = u then
C7_MappedAtReturn ==
  \A i \in ResolveIdx : hist[i].ret # None => hist[i].mapAtRet = hist[i].ret

\* C7, amended: a name found by the canonical, handle, legacy or search step is in
\* UserMap[id] when the call returns; a name returned by step 1 is the value UserMap[id]
\* had when the call began, and is still UserMap[id] at the return unless another
\* handler ran during the call
C7_MapWritten ==
  \A i \in ResolveIdx :
    LET e == hist[i]
    IN e.ret # None =>
         /\ e.step # "mapped" => e.mapAtRet = e.ret
         /\ e.step = "mapped" => e.ret = e.mapped /\ (e.alone => e.mapAtRet = e.ret)

C7_Witness ==
  \E i \in ResolveIdx :
    /\ hist[i].mapped = None /\ hist[i].step = "legacy"
    /\ hist[i].ret = legacy_username(hist[i].uid)
    /\ hist[i].mapAtRet = legacy_username(hist[i].uid)
    /\ hist[i].mapBefore = None

\* C8 as stated: a 401 answer is followed by exactly one re-login and exactly one
\* resend, and a second 401 ends the call with Unauthorized
C8_OneResend ==
  \A t \in Tasks :
    Completed(tasks[t]) /\ tasks[t].a1 = 401 =>
      /\ tasks[t].relogins = 1
      /\ tasks[t].sends = 2
      /\ tasks[t].a2 = 401 => tasks[t].exc = "unauth"

\* C8, amended: one call makes at most 2 sends and at most 1 re-login; a 401 answer to
\* the first send is followed by exactly one re-login, and by exactly one resend when
\* that re-login succeeds (a failed re-login ends the call with the login failure and
\* no resend); a 401 answer to the resend ends the call with Unauthorized; a first
\* answer other than 401 is followed by no re-login and no resend
C8_BoundedRetry ==
  \A t \in Tasks :
    LET tk == tasks[t]
    IN /\ tk.sends <= 2 /\ tk.relogins <= 1
       /\ Completed(tk) /\ tk.a1 = 401 =>
            /\ tk.relogins = 1
            /\ \/ tk.exc = "login" /\ tk.sends = 1
               \/ tk.exc # "login" /\ tk.sends = 2
            /\ tk.a2 = 401 => tk.exc = "unauth" /\ tk.sends = 2
       /\ Completed(tk) /\ tk.a1 # 401 => tk.relogins = 0 /\ tk.sends <= 1

C8_Witness ==
  \E t \in Tasks :
    /\ Completed(tasks[t])
    /\ tasks[t].a1 = 401 /\ tasks[t].a2 = 401
    /\ tasks[t].exc = "unauth" /\ tasks[t].sends = 2 /\ tasks[t].relogins = 1

\* C9: api_get / api_post / api_put never raise: an exception of the request (network
\* failure, failed login, Unauthorized) comes back as code 0, which no HTTP answer
\* uses, and a network failure is followed by no further send
C9_NeverRaises ==
  \A t \in Tasks :
    LET tk == tasks[t]
    IN /\ tk.pc # "crashed"
       /\ Completed(tk) /\ tk.exc # "none" => tk.resp = 0
       /\ Completed(tk) /\ tk.exc = "none" =>
            tk.resp >= 100 /\ tk.resp = (IF tk.sends = 1 THEN tk.a1 ELSE tk.a2)
       /\ Completed(tk) /\ tk.a1 = 0 => tk.exc = "net" /\ tk.sends = 1
       /\ Completed(tk) /\ tk.a2 = 0 => tk.exc = "net" /\ tk.sends = 2

C9_Witness ==
  \E t \in Tasks :
    /\ Completed(tasks[t]) /\ tasks[t].exc = "net"
    /\ tasks[t].resp = 0 /\ tasks[t].sends = 1

\* the canonical lookup of the recorded ensure call met an authorization failure
LookupAuthFailure(e) ==
  /\ Len(e.log) = 1
  /\ \/ e.a1 = 403
     \/ e.a1 = 401 /\ e.a2 \in {401, 403}

\* C10: an authorization failure of the canonical lookup (a 401 that persists after the
\* re-login, or a 403) makes ensure_user_exists return (false, null, auth) with no
\* create request and no write of UserMap
C10_AuthReported ==
  \A i \in EnsureIdx :
    LookupAuthFailure(hist[i]) =>
      /\ hist[i].err = "auth" /\ ~hist[i].created /\ hist[i].username = None
      /\ hist[i].posts = 0
      /\ hist[i].mapAtRet = hist[i].mapBefore

\* the plan_apply handlers that ended, as recorded
TrialIdx == {i \in 1..Len(hist) : hist[i].fn = "handler" /\ hist[i].h = "plan"
                                     /\ hist[i].plan_id = "trial_7d"}

\* C2: under every configuration a successful trial grant leaves TrialUsedSet[id] true,
\* and a trial request made when TrialUsedSet[id] is true is answered with the
\* "trial already used" screen and sends no PUT to the panel
C2_TrialGate ==
  \A i \in TrialIdx :
    /\ hist[i].screen = "plan_selected" => trialUsed[hist[i].uid]
    /\ hist[i].trial_used => hist[i].screen = "trial_used" /\ hist[i].puts = 0

\* the PUT requests activate_paid_plan sent, as recorded
ActIdx == {i \in 1..Len(hist) : hist[i].fn = "activate"}

\* C1: for a stored payment request with a known plan and a panel username, at most
\* one confirmation of a payment id sends a PUT to the panel: a confirmation after the
\* first is a no-op
C1_OncePerPayment ==
  \A i, j \in ActIdx : i # j => hist[i].pid # hist[j].pid

\* C3: once the stored status of a payment request is succeeded, no step changes it
C3_SucceededIsFinal ==
  [][\A p \in PayIds :
       (payReq[p] # None /\ payReq[p][1].status = "succeeded")
         => (payReq'[p] # None /\ payReq'[p][1].status = "succeeded")]_vars

\* midnight UTC of a civil date, in ticks since 2025-01-01
Midnight(y, m, d) ==
  LET yy  == IF m <= 2 THEN y - 1 ELSE y
      era == yy \div 400
      yoe == yy - era * 400
      mp  == (m + 9) % 12
      doy == (153 * mp + 2) \div 5 + d - 1
      doe == yoe * 365 + yoe \div 4 - yoe \div 100 + doy
  IN (era * 146097 + doe - 739557) * DayTicks

\* the two worked examples: E 2025-01-10, now 2025-01-05, 30 days -> 2025-02-09
\* (extend); E 2024-12-01, now 2025-01-05, 30 days -> 2025-02-04 (now)
ComputeExpireExamples ==
  /\ compute_expire(Midnight(2025, 1, 5), Some(Midnight(2025, 1, 10)), 30)
       = [expire |-> Midnight(2025, 2, 9), label |-> "extend"]
  /\ compute_expire(Midnight(2025, 1, 5), Some(Midnight(2024, 12, 1)), 30)
       = [expire |-> Midnight(2025, 2, 4), label |-> "now"]

\* the value compute_expire is said to give for the recorded PUT
ExpectedExpire(e) ==
  IF e.current_expire # None /\ e.now_utc < e.current_expire[1]
    THEN [expire |-> e.current_expire[1] + e.days * DayTicks, label |-> "extend"]
    ELSE [expire |-> e.now_utc + e.days * DayTicks, label |-> "now"]

BothCreate(i, j) ==
  /\ i < j
  /\ hist[i].uid = hist[j].uid
  /\ hist[j].born < i
  /\ Len(hist[i].log) = 2 /\ Len(hist[j].log) = 2
  /\ hist[i].log[1][3] = 404 /\ hist[j].log[1][3] = 404
  /\ Clean(hist[i]) /\ Clean(hist[j])

\* C11: a create request the panel answers with 409 makes ensure_user_exists return
\* (false, tg_<id>, no error) with the mapping saved; two interleaved calls that both
\* send the create request return the same username, at most one of them reports
\* created, and the panel holds the tg_<id> account
C11_ConflictIsSuccess ==
  /\ \A i \in EnsureIdx :
       (Len(hist[i].log) = 2 /\ hist[i].log[2][3] = 409) =>
         /\ ~hist[i].created /\ hist[i].err = ""
         /\ hist[i].username = canonical_username(hist[i].uid)
         /\ hist[i].mapAtRet = canonical_username(hist[i].uid)
  /\ \A i, j \in EnsureIdx :
       BothCreate(i, j) =>
         /\ hist[i].username = canonical_username(hist[i].uid)
         /\ hist[j].username = hist[i].username
         /\ ~(hist[i].created /\ hist[j].created)
         /\ panel[canonical_username(hist[i].uid)] # None

C11_Witness ==
  \E i, j \in EnsureIdx :
    /\ BothCreate(i, j)
    /\ hist[i].created /\ ~hist[j].created
    /\ hist[j].log[2][3] = 409 /\ hist[j].err = ""

\* C12: with auto-creation disabled (TEST_MODE=0) a 404 answer to the canonical
\* lookup makes ensure_user_exists return (false, null, not_found) with UserMap left
\* alone, and no ensure_user_exists call sends a create request
C12_NotFoundNoCreate ==
  /\ \A i \in EnsureIdx :
       (~cfg.test_mode /\ hist[i].log[1][3] = 404) =>
         /\ ~hist[i].created /\ hist[i].username = None /\ hist[i].err = "not_found"
         /\ hist[i].posts = 0 /\ Len(hist[i].log) = 1
         /\ hist[i].mapAtRet = hist[i].mapBefore
  /\ \A t \in Tasks :
       ~cfg.test_mode => tasks[t].posts = 0 /\ tasks[t].req.kind # "create"

C12_Witness ==
  \E i \in EnsureIdx :
    /\ ~cfg.test_mode /\ hist[i].log[1][3] = 404 /\ ~hist[i].log[1][4]
    /\ hist[i].err = "not_found" /\ hist[i].posts = 0

\* the recorded ensure call failed without naming an account
Failed(e) == ~e.created /\ e.username = None /\ e.mapAtRet = e.mapBefore

\* C13: ensure_user_exists reports no panel failure as success: a create answer 422
\* gives error validation, a create answer other than 200/201/409/422 gives
\* http_<code>, a lookup answer other than 200, 404, 401, 403 gives http_<code>; each
\* time created is false, the username is null and UserMap is not written
C13_FailuresReported ==
  \A i \in EnsureIdx :
    LET e == hist[i]
        n == Len(e.log)
        code == e.log[n][3]
    IN /\ (n = 2 /\ code = 422) => e.err = "validation" /\ Failed(e)
       /\ (n = 2 /\ code \notin {200, 201, 409, 422}) =>
            e.err = "http" /\ e.errcode = code /\ Failed(e)
       /\ (n = 1 /\ code \notin {200, 404, 401, 403}) =>
            e.err = "http" /\ e.errcode = code /\ Failed(e)
       /\ e.err # "" => Failed(e)
       /\ e.err = "" => e.username = canonical_username(e.uid) /\ panel[e.username] # None

C13_Witness ==
  \E i \in EnsureIdx :
    /\ Len(hist[i].log) = 2 /\ hist[i].log[2][3] = 422
    /\ hist[i].err = "validation" /\ Failed(hist[i])

\* the saves that ended, the crashes and the accessor calls, as recorded
SaveIdx   == {i \in 1..Len(hist) : hist[i].fn = "save"}
CrashIdx  == {i \in 1..Len(hist) : hist[i].fn = "crash"}
AccessIdx == {i \in 1..Len(hist) : hist[i].fn = "access"}

\* C14: save_json changes the visible file only by the rename: at every moment, also
\* during a save and after a crash at any point of it, every visible file holds
\* exactly what it held at start-up or the complete text of the last document whose
\* save ended, so a reader never finds it missing, cut short or half written
C14_AtomicSave ==
  /\ \A path \in Paths : disk.files[path] = disk.last[path]
  /\ \A i \in SaveIdx : disk.last[hist[i].path].exists

C14_Witness ==
  \E i \in CrashIdx :
    /\ hist[i].pc = "write"
    /\ hist[i].tmp.text # <<>> /\ hist[i].tmp.text # Dump(hist[i].doc)
    /\ disk.files[hist[i].path].exists
    /\ disk.files[hist[i].path] = disk.last[hist[i].path]
    /\ disk.files[TmpPath(hist[i].path)] = hist[i].tmp

\* C15: save_json(path, doc) followed by load_json(path, default) returns a value
\* equal to doc and not the default, for the lists of IDs, the maps of strings and
\* booleans and the maps of payment records the accessors store
C15_RoundTrip ==
  \A i \in SaveIdx : hist[i].loaded = hist[i].doc

C15_Witness ==
  \E i \in SaveIdx :
    /\ hist[i].path = "payment_requests.json"
    /\ hist[i].loaded = hist[i].doc
    /\ Len(hist[i].doc[2]) = 1
    /\ DictGet(hist[i].doc[2][1][2][2], PyStr("username")) = PyNone
    /\ DictGet(hist[i].doc[2][1][2][2], PyStr("tg_id")) = PyInt(1)

\* the file holds no document of the shape the accessor expects: it is missing, its
\* text is no JSON document, or the document is of the other shape
Unusable(e) ==
  LET marker == PyStr("unreadable")
      data == load_json(e.file, marker)
  IN data = marker \/ (IF e.path = "allowed.json" THEN ~IsList(data) ELSE ~IsDict(data))

\* C16: no accessor call raises, and a call on a file that is missing, corrupt or of
\* the wrong shape gives what the same call gives on a missing file
C16_AccessorsDegrade ==
  \A i \in AccessIdx :
    LET e == hist[i]
        r == Access(e.op, NoFile, e.tg_id, e.flag)
    IN /\ ~e.raised
       /\ Unusable(e) => e.result = r.result /\ e.saving = (r.save # <<>>)

\* the notifications answered, as recorded
WebhookIdx == {i \in 1..Len(hist) : hist[i].fn = "handler" /\ hist[i].h = "webhook"}

\* C17: the webhook answers 401 to a wrong secret, 400 to a good secret with a body
\* that is no JSON, no JSON object or lacks object.id or object.status, and 200 to
\* everything else; no request ends the handler with an unhandled error
C17_WebhookAnswers ==
  \A i \in WebhookIdx :
    LET e == hist[i]
        secret_ok == e.inp[1]
        malformed == e.inp[2] # "object" \/ e.inp[3] = 0 \/ e.inp[4] = ""
    IN e.screen = (IF ~secret_ok THEN "401_unauthorized"
                   ELSE IF e.inp[2] = "not_json" THEN "400_bad_json"
                   ELSE IF malformed THEN "400_bad_payload"
                   ELSE "200_ok")

\* the checkout screens shown, as recorded
CheckoutIdx == {i \in 1..Len(hist) : hist[i].fn = "checkout"}

\* C18: when pay:choose shows the confirmation URL of payment p, the request stored
\* under p is the pending one with the chosen plan and its amount, and in every
\* state after that a request is stored under p
C18_StoredBeforeUrl ==
  \A i \in CheckoutIdx :
    LET e == hist[i]
    IN /\ e.stored # None
       /\ e.stored[1].status = "pending"
       /\ e.stored[1].plan = e.plan
       /\ e.stored[1].amount_rub = PAID_PLANS[e.plan].amount
       /\ e.stored[1].tg_id = e.uid
       /\ payReq[e.pid] # None

\* a checkout was shown and the provider has since reported the payment
C18_Witness ==
  \E i \in CheckoutIdx : \E j \in WebhookIdx :
    /\ i < j
    /\ hist[j].pid = hist[i].pid
    /\ hist[j].screen = "200_ok"
    /\ payReq[hist[i].pid] # None
    /\ payReq[hist[i].pid][1].status # "pending"

\* is_trial_used(tg_id) answers True on the files d
UsedOnDisk(d, tg_id) ==
  LET r == Access("is_trial_used", d.files["trial_used.json"], tg_id, FALSE)
  IN ~r.raised /\ r.result = PyBool(TRUE)

\* C19: no step of the bot (an accessor call, a step of a save, a crash and restart)
\* takes a Telegram ID out of the set of IDs that used the trial: an ID that
\* is_trial_used reports stays reported, also when another ID is being marked
C19_TrialUsedMonotonic ==
  [][\A tg_id \in Ids \cup {EarlierId} :
       UsedOnDisk(disk, tg_id) => UsedOnDisk(disk', tg_id)]_vars

\* an ID was marked while another one was in the set, and both are in it
C19_Witness ==
  /\ \E i \in AccessIdx :
       /\ hist[i].op = "mark_trial_used"
       /\ hist[i].file = File(Dump(PyDict(MarkUsed(<<>>, EarlierId))))
       /\ \E j \in SaveIdx : j > i /\ hist[j].path = "trial_used.json"
  /\ \A tg_id \in Ids \cup {EarlierId} : UsedOnDisk(disk, tg_id)

\* the subscription screens shown, as recorded
SubscriptionIdx == {i \in 1..Len(hist) : hist[i].fn = "handler" /\ hist[i].h = "subscription"}
IsNullExpire(expire_raw) ==
  expire_raw = None \/ (IsText(expire_raw) /\ expire_raw[2] = "null")
InactiveScreens == {"inactive", "inactive_trial_used"}

AppliedIdx == {i \in 1..Len(hist) : hist[i].fn = "applied"}
PanelFailed(e) == e.get # 200 \/ e.put \notin {200, 204}

\* C21: when the panel GET or PUT of a succeeded payment failed, the payment is not
\* left recorded as succeeded with its plan selected, and pay:check does not show
\* the confirmation screen for it
C21_FailureNotSuccess ==
  \A i \in AppliedIdx :
    PanelFailed(hist[i]) =>
      LET p == hist[i].pid
          item == payReq[p][1]
      IN /\ ~(/\ payReq[p] # None
              /\ item.status = "succeeded"
              /\ item.plan \in DOMAIN PAID_PLANS
              /\ selectedPlan[item.tg_id] = PAID_PLANS[item.plan].selected_plan)
         /\ ~(/\ hist[i].source = "check"
              /\ i < Len(hist)
              /\ hist[i + 1].fn = "handler"
              /\ hist[i + 1].h = "pay_check"
              /\ hist[i + 1].pid = p
              /\ hist[i + 1].screen = "confirmed")

\* the handlers that ended, as recorded
HandlerIdx(h) == {i \in 1..Len(hist) : hist[i].fn = "handler" /\ hist[i].h = h}

\* C22: no step (a getvpn request, an approval, a rejection, a panel answer) takes a
\* Telegram ID out of allowed.json
C22_AllowListGrows == [][Range(allowed) \subseteq Range(allowed')]_vars

\* an approved user was rejected afterwards and is still allowed
C22_Witness ==
  \E i \in HandlerIdx("adm_ok") : \E j \in HandlerIdx("adm_no") :
    /\ i < j
    /\ hist[i].screen # "no_rights"
    /\ hist[j].screen = "rejected"
    /\ hist[j].uid = hist[i].uid
    /\ hist[i].uid \in Range(allowed)

\* the screens handle_getvpn shows when provisioning failed (lines 588-599)
ProvisionFailed == {"err_auth", "err_validation", "err_http", "not_found"}

\* C23: a getvpn request in auto-provision mode whose provisioning failed leaves the
\* Telegram ID out of allowed.json, unless a provisioning of that ID succeeded
C23_AllowedOnlyProvisioned ==
  \A i \in HandlerIdx("getvpn") :
    (/\ cfg.test_mode
     /\ hist[i].screen \in ProvisionFailed
     /\ \A j \in EnsureIdx : hist[j].uid = hist[i].uid => hist[j].username = None)
      => hist[i].uid \notin Range(allowed)

\* this step ends a handler h of the administrator with the screen recorded last
Ends(h) ==
  /\ Len(hist') = Len(hist) + 1
  /\ hist'[Len(hist')].fn = "handler"
  /\ hist'[Len(hist')].h = h
  /\ hist'[Len(hist')].screen # "no_rights"

\* C24: the step in which adm_ok or adm_no takes up a request for target t leaves t
\* out of pending.json; adm_ok also leaves t in allowed.json, where t still is when
\* the handler ends, whatever the panel answered; adm_no changes neither
\* allowed.json nor user_map.json
C24_PendingCleared ==
  [][/\ \A t \in Tasks :
          (tasks[t].h = "idle" /\ tasks'[t].h = "adm_ok") =>
            /\ tasks'[t].uid \notin Range(pending')
            /\ tasks'[t].uid \in Range(allowed')
     /\ Ends("adm_ok") =>
          /\ hist'[Len(hist')].uid \notin Range(pending')
          /\ hist'[Len(hist')].uid \in Range(allowed')
     /\ Ends("adm_no") =>
          /\ hist'[Len(hist')].uid \notin Range(pending')
          /\ allowed' = allowed
          /\ userMap' = userMap]_vars

\* a user asked for access and was pending, the administrator approved, the panel
\* calls failed, and the user is allowed and no longer pending
C24_Witness ==
  \E i \in HandlerIdx("getvpn") : \E j \in HandlerIdx("adm_ok") :
    /\ i < j
    /\ hist[i].screen = "request_sent"
    /\ hist[j].uid = hist[i].uid
    /\ hist[j].screen \in {"err_auth", "err_http", "not_found"}
    /\ hist[j].uid \in Range(allowed)
    /\ hist[j].uid \notin Range(pending)

\* C25: resolve_marzban_username returns a name only when the last lookup of the
\* call answered 200; it returns at step 1 only after the lookup of the cached name
\* answered 200, and when that lookup answered anything else the call goes on to the
\* lookup of tg_<id> and returns the cached name only if a later lookup found it
C25_CacheRevalidated ==
  \A i \in ResolveIdx :
    LET e == hist[i]
        last == e.log[Len(e.log)]
    IN /\ e.ret # None => last[3] = 200
       /\ e.step = "mapped" =>
            /\ e.mapped # None /\ e.ret = e.mapped
            /\ e.log = <<e.log[1]>>
            /\ e.log[1][1] = "mapped" /\ e.log[1][2] = e.mapped /\ e.log[1][3] = 200
       /\ (e.mapped # None /\ e.log[1][3] # 200) =>
            /\ e.step # "mapped"
            /\ Len(e.log) >= 2 /\ e.log[2][1] = "canonical"
            /\ e.ret = e.mapped =>
                  last[3] = 200 /\ last[1] # "mapped"
                    /\ (last[1] # "search" => last[2] = e.mapped)

\* the panel had purged the cached account (404); the call went on and returned
\* another name
C25_Witness ==
  \E i \in ResolveIdx :
    /\ hist[i].mapped # None
    /\ hist[i].log[1][1] = "mapped"
    /\ hist[i].log[1][3] = 404
    /\ ~hist[i].log[1][4]
    /\ hist[i].ret # None
    /\ hist[i].ret # hist[i].mapped

\* C26: a webhook delivery for a payment id that has no stored request creates no
\* request and changes no local store, whatever status it reports
C26_WebhookCreatesNothing ==
  [][(/\ Len(hist') = Len(hist) + 1
      /\ hist'[Len(hist')].fn = "handler"
      /\ hist'[Len(hist')].h = "webhook"
      /\ hist'[Len(hist')].pid \in PayIds
      /\ payReq[hist'[Len(hist')].pid] = None)
       => /\ payReq' = payReq
          /\ selectedPlan' = selectedPlan
          /\ trialUsed' = trialUsed
          /\ userMap' = userMap
          /\ allowed' = allowed /\ pending' = pending]_vars

\* what a resolve call did after its direct lookups: the candidates cands were to be
\* searched in their order, only after every direct lookup answered non-200; the
\* first username a search reports is returned and cached; when no search reports
\* one the call returns None and leaves user_map.json as it is
SearchedInOrder(e, cands) ==
  LET d == NDirect(e)
      n == Len(e.log) - d
  IN /\ n <= Len(cands)
     /\ n > 0 => \A k \in 1..d : e.log[k][3] # 200
     /\ \A k \in 1..n : e.log[d + k][2] = cands[k]
     /\ e.step = "search" =>
          /\ n >= 1 /\ e.log[d + n][3] = 200
          /\ e.ret = e.log[d + n][2]
          /\ e.mapAtRet = e.ret
     /\ e.step = "none" => e.ret = None /\ n = Len(cands) /\ e.mapAtRet = e.mapBefore
     /\ e.ret = None => e.step = "none"

\* C27 as stated: the searches go through the candidates of steps 1-4 in their
\* order: cached mapping, tg_<id>, handle, user<id>
C27_SearchDirectOrder ==
  \A i \in ResolveIdx : SearchedInOrder(hist[i], DirectCands(hist[i]))

\* the searches of a resolve call, in the amended order
SearchOrder(e) ==
  <<canonical_username(e.uid), legacy_username(e.uid)>>
    \o (IF e.hdl # None THEN <<e.hdl>> ELSE <<>>)

\* C27, amended: the searches go through tg_<id>, user<id> and the handle (when the
\* user has one), in that order; the cached mapping is not a candidate of its own
C27_SearchOrder ==
  \A i \in ResolveIdx : SearchedInOrder(hist[i], SearchOrder(hist[i]))

\* the account exists under the handle only; its direct lookup failed, the searches
\* for tg_<id> and user<id> found nothing, the search for the handle found it
C27_Witness ==
  \E i \in ResolveIdx :
    /\ hist[i].step = "search"
    /\ hist[i].hdl # None
    /\ hist[i].ret = hist[i].hdl
    /\ NDirect(hist[i]) = 3
    /\ Len(hist[i].log) = 6
    /\ hist[i].mapAtRet = hist[i].ret
    /\ hist[i].mapBefore = None

\* two resolve calls for one ID: the first returned a name, the second began after
\* that, met no panel failure, and the panel held the same accounts at both returns
SecondCall(i, j) ==
  /\ i < j
  /\ hist[i].uid = hist[j].uid
  /\ hist[i].ret # None
  /\ hist[j].born >= i
  /\ Clean(hist[j])
  /\ hist[i].pan = hist[j].pan

\* the second call returned the same name after one lookup and wrote nothing
ShortCircuits(i, j) ==
  /\ hist[j].ret = hist[i].ret
  /\ Len(hist[j].log) = 1
  /\ hist[j].step = "mapped"
  /\ hist[j].mapAtRet = hist[j].mapBefore

\* C28 as stated: after a resolve call returned u, a second call for the same ID with
\* the panel unchanged returns u after exactly one panel request and writes nothing
C28_SecondCallShortCircuits ==
  \A i, j \in ResolveIdx : SecondCall(i, j) => ShortCircuits(i, j)

\* C28, amended: the same when user_map.json holds u for the ID as the second call
\* begins
C28_ShortCircuitsWhenCached ==
  \A i, j \in ResolveIdx :
    (SecondCall(i, j) /\ hist[j].mapped = hist[i].ret) => ShortCircuits(i, j)

\* the first call found the name at a later step and cached it; the second one
\* returned it after the one lookup of the cached name
C28_Witness ==
  \E i, j \in ResolveIdx :
    /\ SecondCall(i, j)
    /\ hist[i].step \in {"canonical", "legacy"}
    /\ hist[i].mapBefore # hist[i].ret
    /\ hist[j].mapped = hist[i].ret
    /\ ShortCircuits(i, j)

\* two trial requests for one ID, both granted (the PUT sent and answered with success)
TwoGrants(i, j) ==
  /\ i < j
  /\ hist[i].uid = hist[j].uid
  /\ hist[i].screen = "plan_selected" /\ hist[i].puts = 1
  /\ hist[j].screen = "plan_selected" /\ hist[j].puts = 1

\* C29: with PLANS_UNLIMITED=0, two trial grants for one ID happen only to handlers
\* that ran beside each other and both read the trial flag before either stored it;
\* the state with two grants applied is reachable (C29_Witness)
C29_GrantsRace ==
  \A i, j \in TrialIdx :
    (~cfg.plans_unlimited /\ TwoGrants(i, j)) =>
      /\ ~hist[i].trial_used /\ ~hist[j].trial_used
      /\ ~hist[i].alone /\ ~hist[j].alone
      /\ trialUsed[hist[i].uid]

\* the trial gate is on and two trial grants were applied for one ID
C29_Witness ==
  /\ ~cfg.plans_unlimited
  /\ \E i, j \in TrialIdx : TwoGrants(i, j)

\* the accessor that reads what the write accessor op stored
Reader ==
  [add_allowed          |-> "is_allowed",
   _save_user_mapping   |-> "_get_user_mapping",
   mark_trial_used      |-> "is_trial_used",
   save_payment_request |-> "get_payment_request"]

\* what the reader returns for the key once the call recorded in e is stored
Stored(e) ==
  CASE e.op = "add_allowed" -> PyBool(TRUE)
    [] e.op = "_save_user_mapping" -> PyStr("tg_" \o str(e.tg_id))
    [] e.op = "mark_trial_used" -> PyBool(TRUE)
    [] e.op = "save_payment_request" -> PaymentPayload(e.tg_id, e.tg_id, e.flag)

\* the writes recorded, each the last one to its key
Writes ==
  {i \in AccessIdx :
     /\ hist[i].op \in DOMAIN Reader
     /\ ~hist[i].raised
     /\ \A j \in AccessIdx :
          (j > i /\ hist[j].op = hist[i].op) => hist[j].tg_id # hist[i].tg_id}

\* C30: an accessor's read-modify-write is not interleaved with another handler, so
\* no update is lost: when no save is in progress and the process never crashed,
\* every key written holds the value last written to it, also after another
\* handler wrote a different key of the same store
C30_NoLostUpdate ==
  (disk.save.pc = "idle" /\ CrashIdx = {}) =>
    \A i \in Writes :
      Access(Reader[hist[i].op], disk.files[hist[i].path], hist[i].tg_id, FALSE).result
        = Stored(hist[i])

\* two handlers wrote different keys of one store and both saves have finished
C30_Witness ==
  /\ disk.save.pc = "idle" /\ CrashIdx = {}
  /\ \E i, j \in Writes :
       /\ i < j
       /\ hist[i].op = hist[j].op
       /\ hist[i].op = "_save_user_mapping"
       /\ hist[i].tg_id # hist[j].tg_id
       /\ hist[i].saving /\ hist[j].saving
       /\ Cardinality(SaveIdx) = 2

(* ------------------- C31: the panel client logs in lazily -------------- *)
\* a step in which the worker of task t called _login
LoginStep(t) == tasks'[t].logins = tasks[t].logins + 1
\* a step in which the worker of task t sent a request to the panel
SendStep(t) == tasks'[t].sends = tasks[t].sends + 1

\* C31: the client logs in lazily. A login is only ever made inside a request: by the
\* first request, which found no token, logs in once and only then sends, or after a
\* send was answered 401. A request that finds the token set goes straight to its send,
\* and if that send is not answered 401 the request makes no login at all. A failed
\* login ends the request with no further send, and leaves the token and the panel as
\* they were.
C31_LazyLogin ==
  [][\A t \in Tasks :
       LET a == tasks[t]
           b == tasks'[t]
       IN /\ LoginStep(t) =>
               \/ a.cst = "login" /\ a.logins = 0 /\ a.sends = 0
               \/ a.cst = "relogin" /\ a.relogins = 0 /\ a.sends = 1 /\ a.a1 = 401
          /\ (a.cst = "begin" /\ b.cst # "begin") =>
               IF token THEN SendStep(t) /\ b.logins = 0
                        ELSE b.cst = "login" /\ b.sends = 0 /\ b.logins = 0
          /\ (SendStep(t) /\ a.sends = 0) =>
               /\ token
               /\ a.logins = IF a.cst = "begin" THEN 0 ELSE 1
               /\ (b.a1 # 401 /\ b.cst = "none") => b.logins = a.logins /\ b.relogins = 0
          /\ (LoginStep(t) /\ b.exc = "login") =>
               /\ b.cst = "none" /\ b.resp = 0
               /\ b.sends = a.sends
               /\ token' = token /\ panel' = panel
          /\ (LoginStep(t) /\ b.exc # "login") => token' /\ b.cst \in {"send", "resend"}
          /\ a.cst = "none" => ~LoginStep(t) /\ ~SendStep(t)]_vars

\* with the token set by an earlier request, a request was sent and answered without
\* any login
C31_Witness ==
  \E t, u \in Tasks :
     /\ t # u
     /\ tasks[u].logins = 1 /\ tasks[u].sends = 1 /\ tasks[u].a1 = 200
     /\ tasks[t].cst = "none" /\ tasks[t].sends = 1 /\ tasks[t].logins = 0
     /\ tasks[t].a1 = 200

(* ------------------- C32: one panel account per Telegram ID ------------ *)
\* the accounts of Telegram ID id under an older name
OlderNames(id) == {n \in {legacy_username(id), Handle(id)} : panel[n] # None}

\* C32: while the only accounts of a Telegram ID are a legacy or handle-named one, no
\* step creates the account tg_<id>, and no step moves UserMap[id] from an existing
\* account to another name
C32_NoSecondAccount ==
  [][\A id \in Ids :
       (panel[canonical_username(id)] = None /\ OlderNames(id) # {})
         => /\ panel'[canonical_username(id)] = None
            /\ userMap[id] \in OlderNames(id) => userMap'[id] = userMap[id]]_vars

(* ------------------- C33: no paid plan without a payment --------------- *)
\* the identifiers of the plans that cost money (PLANS, price above 0)
PaidPlanIds == {"test_1d", "month_30d", "year_365d"}
\* some payment request of Telegram ID id is marked paid
HasPaid(id) ==
  \E p \in PayIds : /\ payReq[p] # None
                    /\ payReq[p][1].tg_id = id
                    /\ payReq[p][1].status \in {"succeeded", "paid_test"}

\* C33: SelectedPlan[id] names a paid plan only if a payment request of that ID is
\* marked succeeded or paid_test, and a press of the plan button of a paid plan sends
\* no PUT to the panel
C33_PaidPlanNeedsPayment ==
  /\ \A id \in Ids : selectedPlan[id] \in PaidPlanIds => HasPaid(id)
  /\ \A i \in HandlerIdx("plan") : hist[i].plan_id \in PaidPlanIds => hist[i].puts = 0

(* ------------------- C34: the trial is marked after the panel accepted - *)
\* the step is the end of a plan:trial_7d press that did not grant the trial
TrialPressFailed ==
  /\ Len(hist') = Len(hist) + 1
  /\ hist'[Len(hist')].fn = "handler"
  /\ hist'[Len(hist')].h = "plan"
  /\ hist'[Len(hist')].plan_id = "trial_7d"
  /\ hist'[Len(hist')].screen # "plan_selected"

\* C34: plan_apply writes TrialUsedSet and SelectedPlan only after the panel answered
\* its PUT with 200 or 204. Every step that changes either store is the continuation
\* of a PUT so answered, and the step that ends a trial press in any other way
\* (account not resolved or provisioned, GET failed, PUT refused) changes neither
C34_MarkedAfterAccepted ==
  [][/\ (trialUsed' # trialUsed \/ selectedPlan' # selectedPlan) =>
          \E t \in Tasks :
             /\ tasks[t].pc = "plan_put" /\ tasks[t].resp \in {200, 204}
             /\ tasks[t].req.m = "PUT"
             /\ tasks'[t] = IdleTask
             /\ \A id \in Ids \ {tasks[t].uid} :
                   trialUsed'[id] = trialUsed[id] /\ selectedPlan'[id] = selectedPlan[id]
     /\ TrialPressFailed => trialUsed' = trialUsed /\ selectedPlan' = selectedPlan]_vars

\* the panel refused the PUT of a trial press, and the trial is still available
C34_Witness ==
  \E i \in HandlerIdx("plan") :
     /\ hist[i].plan_id = "trial_7d"
     /\ hist[i].screen = "apply_failed"
     /\ hist[i].puts = 1
     /\ ~trialUsed[hist[i].uid]
     /\ selectedPlan[hist[i].uid] = ""

(* ------------------- C35: admin callbacks from other users ------------- *)
\* the recorded adm_ok / adm_no callback came from the configured administrator
FromAdmin(e) == cfg.admin # 0 /\ e.inp[1] = cfg.admin

\* C35: an adm_ok or adm_no callback whose sender is not the configured administrator
\* (or that arrives when no ADMIN_TG_ID is configured) is answered "no rights" in the
\* step that delivers it, and that step changes no store, sends nothing to the panel
\* and starts no panel request
C35_NonAdminChangesNothing ==
  [][(/\ Len(hist') = Len(hist) + 1
      /\ hist'[Len(hist')].fn = "handler"
      /\ hist'[Len(hist')].h \in {"adm_ok", "adm_no"}
      /\ ~FromAdmin(hist'[Len(hist')]))
       => /\ nev' = nev + 1
          /\ hist'[Len(hist')].screen = "no_rights"
          /\ allowed' = allowed /\ pending' = pending /\ userMap' = userMap
          /\ trialUsed' = trialUsed /\ selectedPlan' = selectedPlan /\ payReq' = payReq
          /\ panel' = panel /\ token' = token
          /\ \A t \in Tasks : /\ tasks'[t].cst = tasks[t].cst
                              /\ tasks'[t].req = tasks[t].req
                              /\ tasks'[t].h = tasks[t].h]_vars

\* a user's request is pending; callbacks from a user who is not the administrator,
\* and from anyone while no administrator is configured, left it pending
C35_Witness ==
  \E i \in HandlerIdx("getvpn") :
    \E j \in HandlerIdx("adm_ok") \cup HandlerIdx("adm_no") :
      /\ i < j
      /\ hist[i].screen = "request_sent"
      /\ hist[j].uid = hist[i].uid
      /\ ~FromAdmin(hist[j])
      /\ hist[j].screen = "no_rights"
      /\ hist[j].uid \in Range(pending)
      /\ hist[j].uid \notin Range(allowed)

(* ------------------- C36: rejected webhook requests -------------------- *)
\* the recorded notification fails a check of lines 863-874: the secret, the JSON
\* syntax, or the id and status of the payment
Rejected(e) ==
  \/ ~e.inp[1]
  \/ e.inp[2] = "not_json"
  \/ e.inp[2] = "object" /\ (e.inp[3] = 0 \/ e.inp[4] = "")

\* C36: a webhook request that is answered 401 or 400 is answered in the step that
\* delivers it, and that step leaves the payment requests, the selected plans, the
\* other stores and every panel account unchanged and starts no panel request; a
\* request with a wrong secret, a body that is no JSON, or no payment id or status
\* gets exactly these answers
C36_RejectedWebhookChangesNothing ==
  [][(/\ Len(hist') = Len(hist) + 1
      /\ hist'[Len(hist')].fn = "handler"
      /\ hist'[Len(hist')].h = "webhook")
       => LET e == hist'[Len(hist')]
              refused == e.screen \in {"401_unauthorized", "400_bad_json", "400_bad_payload"}
          IN /\ Rejected(e) => refused
             /\ ~e.inp[1] => e.screen = "401_unauthorized"
             /\ refused =>
                  /\ nev' = nev + 1
                  /\ payReq' = payReq /\ selectedPlan' = selectedPlan
                  /\ trialUsed' = trialUsed /\ userMap' = userMap
                  /\ allowed' = allowed /\ pending' = pending
                  /\ panel' = panel /\ token' = token
                  /\ \A t \in Tasks : /\ tasks'[t].cst = tasks[t].cst
                                      /\ tasks'[t].req = tasks[t].req
                                      /\ tasks'[t].h = tasks[t].h]_vars

\* a notification with a wrong secret and one with a body that is no JSON were
\* refused while a payment request was pending, and the request is still pending
C36_Witness ==
  \E i, j \in HandlerIdx("webhook") :
    /\ hist[i].screen = "401_unauthorized"
    /\ hist[i].inp[3] \in PayIds /\ hist[i].inp[4] = "succeeded"
    /\ payReq[hist[i].inp[3]] # None
    /\ payReq[hist[i].inp[3]][1].status = "pending"
    /\ hist[j].screen = "400_bad_json"

(* ------------------- C37: confirmations that activate nothing ---------- *)
\* the stored request of payment id pid can be activated: it names a known plan and
\* a Telegram ID
Activable(pid) ==
  /\ payReq[pid] # None
  /\ payReq[pid][1].plan \in {"test1d", "month", "year"}
  /\ payReq[pid][1].tg_id # 0
\* the step starts a panel request in some task
StartsRequest == \E t \in Tasks : tasks'[t].cst = "begin" /\ tasks[t].cst # "begin"
\* the step delivers an accepted webhook notification and ends its handler
AcceptedWebhook ==
  /\ nev' = nev + 1
  /\ Len(hist') = Len(hist) + 1
  /\ hist'[Len(hist')].fn = "handler"
  /\ hist'[Len(hist')].h = "webhook"
  /\ hist'[Len(hist')].screen = "200_ok"

\* C37: a webhook notification with a status other than succeeded changes no
\* SelectedPlan entry and no panel account and starts no panel request, and its
\* handler ends in the step that delivers it; a succeeded notification for a stored
\* request with an unknown plan or no Telegram ID does the same. In every step of
\* the payment handlers, SelectedPlan changes or a panel request starts only for a
\* stored request with a known plan and a Telegram ID that the step leaves succeeded,
\* and a panel account changes only by the PUT of an activation, which no
\* notification with another status starts
C37_OnlySucceededActivates ==
  [][/\ \A pid \in PayIds, st \in PayStatuses :
          (/\ \E t \in Tasks :
                 /\ LowestIdle(t) /\ nev < MaxEvents
                 /\ nev' = nev + 1
                 /\ \/ tasks'[t].h = "webhook" /\ tasks'[t].inp = <<TRUE, "object", pid, st>>
                    \/ /\ Len(hist') = Len(hist) + 1
                       /\ hist'[Len(hist')].fn = "handler"
                       /\ hist'[Len(hist')].h = "webhook"
                       /\ hist'[Len(hist')].inp = <<TRUE, "object", pid, st>>
           /\ (st # "succeeded" \/ ~Activable(pid)))
            => /\ AcceptedWebhook
               /\ selectedPlan' = selectedPlan
               /\ panel' = panel
               /\ ~StartsRequest
     /\ (selectedPlan' # selectedPlan \/ StartsRequest) =>
          \E t \in Tasks :
             LET pid == tasks'[t].pid
             IN /\ tasks'[t].cst = "begin" \/ tasks[t].pc = "chk_status" \/ tasks[t].h = "idle"
                /\ pid \in PayIds
                /\ tasks[t].pc # "act_get" => /\ Activable(pid)
                                              /\ payReq'[pid][1].status = "succeeded"
     /\ panel' # panel =>
          \E t \in Tasks : /\ tasks[t].pc = "act_put"
                           /\ tasks[t].req.m = "PUT"
                           /\ tasks[t].pid \in PayIds
                           /\ tasks[t].h = "webhook" => tasks[t].inp[4] = "succeeded"]_vars

\* a canceled notification was accepted, then a succeeded one for a stored request
\* that names no plan and no Telegram ID; no plan was selected and nothing was sent
\* to the panel
C37_Witness ==
  \E i, j \in HandlerIdx("webhook") :
    /\ i < j
    /\ hist[i].screen = "200_ok" /\ hist[i].inp[4] = "canceled"
    /\ hist[j].screen = "200_ok" /\ hist[j].inp[4] = "succeeded"
    /\ hist[j].inp[3] = hist[i].inp[3]
    /\ payReq[hist[j].inp[3]] # None
    /\ payReq[hist[j].inp[3]][1].plan = ""
    /\ payReq[hist[j].inp[3]][1].tg_id = 0
    /\ hist[j].puts = 0
    /\ \A id \in Ids : selectedPlan[id] = ""

(* ------------------- C38: PendingSet and AllowList --------------------- *)
\* the two lists share no ID and neither holds an ID twice
Tidy(al, pe) ==
  /\ Range(al) \cap Range(pe) = {}
  /\ \A i, j \in 1..Len(al) : al[i] = al[j] => i = j
  /\ \A i, j \in 1..Len(pe) : pe[i] = pe[j] => i = j

\* C38: in manual-approval mode, starting from empty stores, pending.json and
\* allowed.json never share an ID and never hold an ID twice; a getvpn request from a
\* user who is already allowed or already pending is answered at once, adds nothing
\* and sends no request to the administrator; an approval leaves its target in
\* allowed.json and out of pending.json
C38_PendingAllowedDisjoint ==
  [][/\ ~cfg.test_mode
     /\ Tidy(allowed, pending) /\ Tidy(allowed', pending')
     /\ (/\ nev' = nev + 1
         /\ Len(hist') = Len(hist) + 1
         /\ hist'[Len(hist')].fn = "handler"
         /\ hist'[Len(hist')].h = "getvpn")
          => LET e == hist'[Len(hist')]
             IN /\ e.uid \in Range(allowed) =>
                     e.screen = "already_allowed" /\ allowed' = allowed /\ pending' = pending
                /\ e.uid \in Range(pending) =>
                     e.screen = "already_pending" /\ allowed' = allowed /\ pending' = pending
                /\ e.screen = "request_sent" =>
                     /\ e.uid \notin Range(allowed) \cup Range(pending)
                     /\ pending' = Append(pending, e.uid) /\ allowed' = allowed
     /\ \A t \in Tasks :
          (tasks[t].h = "idle" /\ tasks'[t].h = "adm_ok")
            => /\ tasks'[t].uid \in Range(allowed')
               /\ tasks'[t].uid \notin Range(pending')
               /\ Range(allowed') = Range(allowed) \cup {tasks'[t].uid}
               /\ Range(pending') = Range(pending) \ {tasks'[t].uid}]_vars

\* a user asked twice: the second request found the first one pending and added
\* nothing
C38_Witness ==
  \E i, j \in HandlerIdx("getvpn") :
    /\ i < j
    /\ hist[i].uid = hist[j].uid
    /\ hist[i].screen = "request_sent"
    /\ hist[j].screen = "already_pending"
    /\ pending = <<hist[i].uid>>
    /\ allowed = <<>>

====
